---- MODULE Spec2Model ----
(***************************************************************************)
(* Resource / kind resolution of kgent-api: ResourceService.mappingFor and *)
(* its entry points (api/services/resourceSvc.go), run against a           *)
(* meta.RESTMapper (the "Capability Index").                               *)
(*                                                                         *)
(* Strings are sequences of symbols.  A symbol is either the dot "." or a  *)
(* dot-free word, so that strings.Count / strings.Index / strings.SplitN   *)
(* on "." are computed on the sequence exactly as the Go code computes     *)
(* them on the bytes of the token.  The empty string is << >>.             *)
(***************************************************************************)
EXTENDS Integers, Sequences, FiniteSets, TLC

VARIABLES
    index,     \* the RESTMapper the service points at (*r.restMapper)
    pc,        \* position of the call inside GetGVR / mappingFor
    entry,     \* the method the caller invoked: "mappingFor" or "GetGVR"
    token,     \* resourceOrKindArg
    gvk,       \* the local variable gvk of mappingFor (resourceSvc.go:126)
    issued,    \* the queries this call has sent to the RESTMapper, in order
    outcome,   \* what mappingFor returned: (mapping, err)
    result,    \* what the invoked method returned to its caller
    prev,      \* what the previous call with the same arguments returned
    exPc,      \* position inside mappingFor of restmapper/restmapper.go
    exGvk,     \* the local variable gvk of that copy (restmapper.go:141)
    exIssued,  \* the queries that copy has sent to the RESTMapper, in order
    exOutcome, \* what that copy returned: (mapping, err)
    args,      \* os.Args[1:] of the informer example
    home,      \* homedir.HomeDir() of the informer example
    flagSet,   \* flag.CommandLine: the flags defined so far, with their values
    parsed,    \* flag.Parsed()
    inPc,      \* position inside main of informer/informer.go
    exitCode,  \* the status the informer process exited with, -1 while it runs
    kubeConfig,\* the *K8sConfig NewK8sConfig returned
    namespace, \* the local variable namespace of main (informer.go:244)
    cur,       \* the goroutine that is running: the one whose locals pc .. prev are
    parked,    \* the locals of the goroutines that are not running
    solo,      \* the callers have stopped overlapping their calls
    k8sconfig, \* the *K8sConfig of api/config: its embedded fields and e
    heap,      \* the number of client objects constructed so far
    called,    \* the method of K8sConfig that was called last
    returned,  \* what that method returned
    before,    \* the K8sConfig as it was when that method was called
    mainPc,    \* position inside main of api/kapi.go
    locals,    \* restMapper, dynamicClient, informer, clientSet of main (kapi.go:31-34)
    port,      \* os.Getenv("PORT")
    listening, \* srv.ListenAndServe() is accepting requests
    status,    \* the status the API server exited with, -1 while it runs
    handler,   \* the handler of ResourceCtl serving the request, "" if none
    request,   \* the parameters and the body of the request (its gin.Context)
    responses, \* the responses written to the request's gin.Context, in order
    method,    \* the method of ResourceService under way, "" if none
    opArgs,    \* its arguments ns, name and yaml
    opPc,      \* position of that method
    svcCalls,  \* the methods of ResourceService invoked so far, in order
    clientCalls, \* the calls made to the informer factory and the dynamic client
    opResult,  \* what the method of ResourceService returned
    cluster,   \* the events the cluster holds, oldest first
    evArgs,    \* the arguments ns and podname of GetEvents
    evPc,      \* position inside PodLogEventService.GetEvents and its handler
    evHandled, \* GetEvents was invoked by the handler GetEvent
    listCalls, \* the event lists requested from the cluster, in order
    evResult,  \* what GetEvents returned
    evResponses \* the responses the handler GetEvent has written

serviceVars == <<index, pc, entry, token, gvk, issued, outcome, result, prev>>

exampleVars == <<exPc, exGvk, exIssued, exOutcome>>

informerVars == <<args, home, flagSet, parsed, inPc, exitCode, kubeConfig, namespace>>

schedulerVars == <<cur, parked, solo>>

configVars == <<k8sconfig, heap, called, returned, before>>

mainVars == <<mainPc, locals, port, listening, status>>

requestVars == <<handler, request, responses, method, opArgs, opPc, svcCalls, clientCalls, opResult>>

eventVars == <<cluster, evArgs, evPc, evHandled, listCalls, evResult, evResponses>>

serverVars == <<schedulerVars, configVars, mainVars, requestVars, eventVars>>

\* the variables of the API server that the scheduler, the methods of
\* K8sConfig, and main leave alone
besideScheduler == <<configVars, mainVars, requestVars, eventVars>>
besideConfig == <<schedulerVars, mainVars, requestVars, eventVars>>
besideMain == <<schedulerVars, requestVars, eventVars>>
besideRequest == <<schedulerVars, configVars, mainVars, eventVars>>
besideEvents == <<schedulerVars, configVars, mainVars, requestVars>>

vars == <<serviceVars, exampleVars, informerVars, serverVars>>

----------------------------------------------------------------------------
(* Bounds of the model. *)

\* tokens have at most MaxDots dots
MaxDots == 2

\* the command line of the informer example has at most MaxArgs arguments
MaxArgs == 2

\* the callers that use one ResourceService at the same time
NumCalls == 2

\* client objects a caller of K8sConfig may have constructed before it stops
\* calling Init methods
MaxObjects == 4

\* events the cluster holds
MaxEvents == 3

Dot == "."

\* the dot-free words the segments of a token are drawn from
TokenWords == {"pods", "Pod", "deployments", "apps", "v1"}

Segments == {<< >>} \cup {<<w>> : w \in TokenWords}

\* the segments that follow the first dot of a token: a version, a group, or
\* a resource name (for the tokens that put the version first); the names of
\* pods stand in the first segment only
LaterSegments == Segments \ {<<"pods">>, <<"Pod">>}

RECURSIVE JoinDots(_)
JoinDots(segs) ==
    IF Len(segs) = 1 THEN segs[1]
    ELSE segs[1] \o <<Dot>> \o JoinDots(Tail(segs))

\* every token of one to MaxDots+1 segments (the empty token is among them),
\* one dotless token that no index content knows, and the tokens that name
\* a custom resource, bare and with the group "apps"
Tokens ==
    {JoinDots(segs) :
        segs \in UNION {{f \in [1..n -> Segments] : \A i \in 2..n : f[i] \in LaterSegments} :
                            n \in 1..(MaxDots + 1)}}
        \cup {<<"nonexistentthing">>, <<"clonesets">>, <<"clonesets", Dot, "apps">>}

----------------------------------------------------------------------------
(* Values of k8s.io/apimachinery/pkg/runtime/schema used by mappingFor. *)

Nil == [nil |-> TRUE]

GVR(g, v, r) == [Group |-> g, Version |-> v, Resource |-> r]
GVK(g, v, k) == [Group |-> g, Version |-> v, Kind |-> k]
GroupKindOf(g, k) == [Group |-> g, Kind |-> k]

\* schema.GroupVersionKind{}  (resourceSvc.go:126)
EmptyGVK == GVK(<< >>, << >>, << >>)

\* gvk.Empty(): all three fields have length 0
Empty(k) == Len(k.Group) = 0 /\ Len(k.Version) = 0 /\ Len(k.Kind) = 0

\* strings.Count(s, ".")
CountDots(s) == Cardinality({i \in DOMAIN s : s[i] = Dot})

\* strings.Index(s, "."), 1-based; 0 stands for Go's -1
IndexDot(s) ==
    IF \E i \in DOMAIN s : s[i] = Dot
    THEN CHOOSE i \in DOMAIN s : s[i] = Dot /\ \A j \in 1..(i - 1) : s[j] # Dot
    ELSE 0

Before(s) == SubSeq(s, 1, IndexDot(s) - 1)
After(s) == SubSeq(s, IndexDot(s) + 1, Len(s))

\* schema.ParseGroupResource: split at the first dot
ParseGroupResource(s) ==
    IF IndexDot(s) > 0
    THEN [Group |-> After(s), Resource |-> Before(s)]
    ELSE [Group |-> << >>, Resource |-> s]

\* schema.ParseResourceArg: strings.SplitN(arg, ".", 3) gives resource, version, group
ParseResourceArg(arg) ==
    [gvr |-> IF CountDots(arg) >= 2
             THEN GVR(After(After(arg)), Before(After(arg)), Before(arg))
             ELSE Nil,
     gr |-> ParseGroupResource(arg)]

\* schema.ParseGroupKind: split at the first dot
ParseGroupKind(s) ==
    IF IndexDot(s) = 0
    THEN GroupKindOf(<< >>, s)
    ELSE GroupKindOf(After(s), Before(s))

\* schema.ParseKindArg: strings.SplitN(arg, ".", 3) gives kind, version, group
ParseKindArg(arg) ==
    [gvk |-> IF CountDots(arg) >= 2
             THEN GVK(After(After(arg)), Before(After(arg)), Before(arg))
             ELSE Nil,
     gk |-> ParseGroupKind(arg)]

\* %q of a string
Quote(s) == <<"\"">> \o s \o <<"\"">>

\* strings.Contains(s, sub)
Contains(s, sub) ==
    \E i \in 0..(Len(s) - Len(sub)) : SubSeq(s, i + 1, i + Len(sub)) = sub

----------------------------------------------------------------------------
(* Errors.  class tells where the error comes from:                        *)
(*   "InvalidArgument"  fmt.Errorf at resourceSvc.go:89 and :122           *)
(*   "NotFound"         fmt.Errorf at resourceSvc.go:153                   *)
(*   "NoMatch"          an error of the RESTMapper for which               *)
(*                      meta.IsNoMatchError is true                        *)
(*   "BadResource"      the RESTMapper's "a resource must be present"      *)
(*   "Upstream"         any other failure of the RESTMapper (transport)    *)

NoErr == [class |-> "nil", msg |-> << >>]
Err(c, m) == [class |-> c, msg |-> m]

ErrEmptyToken == Err("InvalidArgument", <<"resource type cannot be empty">>)

\* faulty variant of ErrNotFound: the message names the group, not the resource
ErrNotFoundOfGroup(gr) ==
    Err("NotFound", <<"the server doesn't have a resource type ">> \o Quote(gr.Group))

\* fmt.Errorf("the server doesn't have a resource type %q", groupResource.Resource)
ErrNotFound(gr) ==
    Err("NotFound", <<"the server doesn't have a resource type ">> \o Quote(gr.Resource))

\* meta.IsNoMatchError(err)
IsNoMatchError(e) == e.class = "NoMatch"

----------------------------------------------------------------------------
(* The Capability Index: a meta.RESTMapper.  mappingFor receives it as an  *)
(* interface value (resourceSvc.go:120), so the model admits mappers       *)
(* other than a healthy one:                                               *)
(*   kinds     the types KindFor can resolve a resource name to            *)
(*   mappings  the types RESTMapping holds a mapping for                   *)
(*   down      the operations that currently fail with a transport error   *)
(* A mapper built by restmapper.NewDiscoveryRESTMapper from one discovery  *)
(* document (api/config/kubeconfig.go:114) has kinds = mappings and        *)
(* down = {}.  The lookups follow meta.DefaultRESTMapper behind            *)
(* meta.PriorityRESTMapper: resource names are lower-cased, plural and     *)
(* singular names both match, an empty version matches any version, a      *)
(* group without version also matches the groups it is a prefix of, and    *)
(* among several matches the group listed first by discovery wins.         *)

ApiType(g, v, k, r, s, ns) ==
    [Group |-> g, Version |-> v, Kind |-> k, Resource |-> r, Singular |-> s, Namespaced |-> ns]

PodType == ApiType(<< >>, <<"v1">>, <<"Pod">>, <<"pods">>, <<"pod">>, TRUE)
\* a cluster-scoped type of the core group
NodeType == ApiType(<< >>, <<"v1">>, <<"Node">>, <<"nodes">>, <<"node">>, FALSE)
DeploymentApps ==
    ApiType(<<"apps">>, <<"v1">>, <<"Deployment">>, <<"deployments">>, <<"deployment">>, TRUE)
DeploymentExtensions ==
    ApiType(<<"extensions">>, <<"v1beta1">>, <<"Deployment">>, <<"deployments">>, <<"deployment">>, TRUE)

\* a type of a custom resource definition, in a group whose name starts with
\* the name of a built-in group
CloneSetType ==
    ApiType(<<"apps", Dot, "kruise", Dot, "io">>, <<"v1alpha1">>, <<"CloneSet">>,
            <<"clonesets">>, <<"cloneset">>, TRUE)

\* the priority order of the mapper: the order in which discovery lists the
\* groups.  extensions precedes apps here, so a bare "deployments" does not
\* already name the apps variant; the groups of custom resources come last
TypeOrder == <<PodType, NodeType, DeploymentExtensions, DeploymentApps, CloneSetType>>

\* the namespaced types: the index contents of the resolver are made of these
Types == {t \in {TypeOrder[i] : i \in DOMAIN TypeOrder} : t.Namespaced}

\* the types every cluster of the model may serve without a custom resource
BuiltIn == {PodType, DeploymentExtensions, DeploymentApps}

Ops == {"KindFor", "RESTMapping"}

IndexOf(k, m, d) == [kinds |-> k, mappings |-> m, down |-> d]

\* built from one discovery document, every lookup answered
Healthy == {IndexOf(T, T, {}) : T \in SUBSET Types}

\* one of the two operations fails with a transport error
Unreachable == {IndexOf(T, T, {o}) : T \in SUBSET BuiltIn, o \in Ops}

\* KindFor knows one type that RESTMapping holds no mapping for
Partial == UNION {{IndexOf(T, T \ {t}, {}) : t \in T} : T \in SUBSET BuiltIn}

IndexContents == Healthy \cup Unreachable \cup Partial

\* strings.ToLower on one symbol
LowerSym(w) ==
    CASE w = "Pod" -> "pod"
      [] w = "Deployment" -> "deployment"
      [] w = "CloneSet" -> "cloneset"
      [] OTHER -> w

ToLower(s) == [i \in DOMAIN s |-> LowerSym(s[i])]

HasPrefix(s, p) == Len(p) <= Len(s) /\ SubSeq(s, 1, Len(p)) = p

\* schema.GroupVersion.String()
GVString(g, v) == IF Len(g) > 0 THEN g \o <<"/">> \o v ELSE v

\* the match the priority order prefers
Preferred(ts) ==
    TypeOrder[CHOOSE i \in DOMAIN TypeOrder :
                  TypeOrder[i] \in ts /\ \A j \in 1..(i - 1) : TypeOrder[j] \notin ts]

\* MultiRESTMapper.KindsFor over one DefaultRESTMapper per group/version: the
\* registered types a partial resource matches.  Given a group and no version,
\* each DefaultRESTMapper prefers an exact match of the group and else matches
\* on a prefix of it; a mapper holds the types of one group, so the union over
\* the mappers is every type of that name whose group starts with the group
KindsFor(ix, gvr) ==
    LET r == ToLower(gvr.Resource)
        named == {t \in ix.kinds : t.Resource = r \/ t.Singular = r}
        hasGroup == Len(gvr.Group) > 0
        hasVersion == Len(gvr.Version) > 0
    IN  CASE hasGroup /\ hasVersion ->
               {t \in named : t.Group = gvr.Group /\ t.Version = gvr.Version}
          [] hasGroup /\ ~hasVersion ->
               {t \in named : HasPrefix(t.Group, gvr.Group)}
          [] ~hasGroup /\ hasVersion ->
               {t \in named : t.Version = gvr.Version}
          [] OTHER -> named

\* RESTMapper.KindFor(gvr): (GroupVersionKind, error); the GVK is empty on error
KindFor(ix, gvr) ==
    IF "KindFor" \in ix.down
    THEN [gvk |-> EmptyGVK, err |-> Err("Upstream", <<"connection refused">>)]
    ELSE IF Len(gvr.Resource) = 0 /\ ix.kinds # {}
    THEN [gvk |-> EmptyGVK, err |-> Err("BadResource", <<"a resource must be present">>)]
    ELSE IF KindsFor(ix, gvr) = {}
    THEN [gvk |-> EmptyGVK,
          err |-> Err("NoMatch", <<"no matches for ">> \o GVString(gvr.Group, gvr.Version)
                                    \o <<", Resource=">> \o ToLower(gvr.Resource))]
    ELSE LET t == Preferred(KindsFor(ix, gvr))
         IN  [gvk |-> GVK(t.Group, t.Version, t.Kind), err |-> NoErr]

\* DefaultRESTMapper.RESTMappings: a kind is registered under its name and
\* under its lower-cased name (NewDiscoveryRESTMapper adds both)
MappingsFor(ix, gk, version) ==
    {t \in ix.mappings :
        /\ t.Group = gk.Group
        /\ (t.Kind = gk.Kind \/ ToLower(t.Kind) = gk.Kind)
        /\ (Len(version) = 0 \/ t.Version = version)}

\* RESTMapper.RESTMapping(gk, version): (*RESTMapping, error)
RESTMapping(ix, gk, version) ==
    IF "RESTMapping" \in ix.down
    THEN [mapping |-> Nil, err |-> Err("Upstream", <<"connection refused">>)]
    ELSE IF MappingsFor(ix, gk, version) = {}
    THEN [mapping |-> Nil,
          err |-> Err("NoMatch", <<"no matches for kind ">> \o Quote(gk.Kind)
                                    \o <<" in version ">> \o Quote(GVString(gk.Group, version)))]
    ELSE LET t == Preferred(MappingsFor(ix, gk, version))
         IN  [mapping |-> [Resource |-> GVR(t.Group, t.Version, t.Resource),
                           GroupVersionKind |-> GVK(t.Group, t.Version, gk.Kind),
                           Scope |-> IF t.Namespaced THEN "namespace" ELSE "root"],
              err |-> NoErr]

\* the record of one query sent to the RESTMapper and of the error it returned
Query(op, arg, e) == [op |-> op, arg |-> arg, err |-> e]

\* faulty variant of Issue: every lookup is sent a second time
IssueTwice(log, q) == Append(Append(log, q), q)

\* the call (*restMapper).KindFor(...) / (*restMapper).RESTMapping(...): one query
Issue(log, q) == Append(log, q)

----------------------------------------------------------------------------
(* ResourceService.mappingFor and ResourceService.GetGVR, one action per   *)
(* statement that may query the RESTMapper.  pc names the line of          *)
(* resourceSvc.go the call is about to execute.                            *)

Pending == [pending |-> TRUE]

Returned(m, e) == [mapping |-> m, err |-> e]

\* what the invoked method hands to its caller once mappingFor has returned o:
\* GetGVR returns &restMapping.Resource (resourceSvc.go:92-97)
Deliver(e, o) ==
    IF e = "GetGVR"
    THEN [value |-> IF o.err = NoErr THEN o.mapping.Resource ELSE Nil, err |-> o.err]
    ELSE [value |-> o.mapping, err |-> o.err]

Entries == {"mappingFor", "GetGVR"}

\* no call of the service is under way
ServiceIdle ==
    /\ pc = "idle"
    /\ entry = "mappingFor"
    /\ token = << >>
    /\ gvk = EmptyGVK
    /\ issued = << >>
    /\ outcome = Pending
    /\ result = Pending
    /\ prev = Pending

\* the service after NewResourceService (resourceSvc.go:23-26), no call made yet
ServiceInit == index \in IndexContents /\ ServiceIdle

\* mappingFor of the restmapper example has not been called
ExampleIdle ==
    /\ exPc = "idle"
    /\ exGvk = EmptyGVK
    /\ exIssued = << >>
    /\ exOutcome = Pending

\* the informer example has not been started
InformerIdle ==
    /\ args = << >>
    /\ home = ""
    /\ flagSet = {}
    /\ parsed = FALSE
    /\ inPc = "idle"
    /\ exitCode = -1
    /\ kubeConfig = Nil
    /\ namespace = ""

\* the goroutines that call the service
Calls == 1..NumCalls

\* the locals of a goroutine that has not called the service yet
IdleCtx ==
    [pc |-> "idle", entry |-> "mappingFor", token |-> << >>, gvk |-> EmptyGVK,
     issued |-> << >>, outcome |-> Pending, result |-> Pending, prev |-> Pending]

\* one goroutine runs, no other has been started
SchedulerIdle ==
    /\ cur = 1
    /\ parked = [c \in Calls |-> IdleCtx]
    /\ solo = FALSE

\* a value of one of the embedded pointer / interface fields of K8sConfig
Obj(t, n) == [type |-> t, id |-> n]

\* NewK8sConfig of api/config (kubeconfig.go:29-31): &K8sConfig{}
NewConfig ==
    [Config |-> Nil, Clientset |-> Nil, DynamicClient |-> Nil, RESTMapper |-> Nil,
     SharedInformerFactory |-> Nil, e |-> NoErr]

\* no method of K8sConfig has been called
ConfigIdle ==
    /\ k8sconfig = NewConfig
    /\ heap = 0
    /\ called = ""
    /\ returned = Nil
    /\ before = NewConfig

NoLocals == [restMapper |-> Nil, dynamicClient |-> Nil, informer |-> Nil, clientSet |-> Nil]

\* main of api/kapi.go has not been started
MainIdle ==
    /\ mainPc = "idle"
    /\ locals = NoLocals
    /\ port = ""
    /\ listening = FALSE
    /\ status = -1

NoArgs == [ns |-> "", name |-> "", yaml |-> << >>]

\* no request has arrived and no method of ResourceService has been invoked
RequestIdle ==
    /\ handler = ""
    /\ request = Nil
    /\ responses = << >>
    /\ method = ""
    /\ opArgs = NoArgs
    /\ opPc = "idle"
    /\ svcCalls = << >>
    /\ clientCalls = << >>
    /\ opResult = Pending

\* GetEvents has not been invoked; the cluster holds no event
EventsIdle ==
    /\ cluster = << >>
    /\ evArgs = [ns |-> "", podname |-> ""]
    /\ evPc = "idle"
    /\ evHandled = FALSE
    /\ listCalls = << >>
    /\ evResult = Pending
    /\ evResponses = << >>

\* the API server has not been started
ServerIdle == SchedulerIdle /\ ConfigIdle /\ MainIdle /\ RequestIdle /\ EventsIdle

Init == ServiceInit /\ ExampleIdle /\ InformerIdle /\ ServerIdle

\* faulty variant of Start: the empty-token checks are missing
StartUnchecked(e, t) ==
    /\ entry' = e
    /\ token' = t
    /\ gvk' = EmptyGVK
    /\ issued' = << >>
    /\ outcome' = Pending
    /\ result' = Pending
    /\ pc' = "L128"
    /\ UNCHANGED index

\* faulty variant of Start: entering the method drops what the mapper holds
StartInvalidatingIndex(e, t) ==
    /\ entry' = e
    /\ token' = t
    /\ gvk' = EmptyGVK
    /\ issued' = << >>
    /\ IF t = << >>
       THEN /\ outcome' = IF e = "GetGVR" THEN Pending ELSE Returned(Nil, ErrEmptyToken)
            /\ result' = [value |-> Nil, err |-> ErrEmptyToken]
            /\ pc' = "done"
       ELSE /\ outcome' = Pending
            /\ result' = Pending
            /\ pc' = "L128"
    /\ index' = IndexOf({}, {}, index.down)

\* entering the method: the empty-token checks of GetGVR (88-90) and of
\* mappingFor (121-123), then the parse and gvk := GroupVersionKind{} (125-126)
Start(e, t) ==
    /\ entry' = e
    /\ token' = t
    /\ gvk' = EmptyGVK
    /\ issued' = << >>
    /\ IF t = << >>
       THEN /\ outcome' = IF e = "GetGVR" THEN Pending ELSE Returned(Nil, ErrEmptyToken)
            /\ result' = [value |-> Nil, err |-> ErrEmptyToken]
            /\ pc' = "done"
       ELSE /\ outcome' = Pending
            /\ result' = Pending
            /\ pc' = "L128"
    /\ UNCHANGED index

Call ==
    /\ pc = "idle"
    /\ prev' = prev
    /\ \E e \in Entries, t \in Tokens : Start(e, t)
    /\ UNCHANGED <<exampleVars, informerVars, serverVars>>

\* a caller inside the service (ListResource at line 29, getResourceInterface
\* at line 104) invokes mappingFor
CallMappingFor ==
    /\ pc = "idle"
    /\ prev' = prev
    /\ \E t \in Tokens : Start("mappingFor", t)
    /\ UNCHANGED <<exampleVars, informerVars, serverVars>>

\* the caller repeats the call it has just completed, with the same arguments
Again ==
    /\ pc = "done"
    /\ prev' = result
    /\ Start(entry, token)
    /\ UNCHANGED <<exampleVars, informerVars, serverVars>>

\* faulty variant of KindForFullySpecified: the fully-specified lookup is missing
KindForFullySpecifiedSkipped ==
    /\ pc = "L128"
    /\ pc' = "L131"
    /\ UNCHANGED <<index, entry, token, gvk, issued, outcome, result, prev>>
    /\ UNCHANGED <<exampleVars, informerVars, serverVars>>

\* resourceSvc.go:128-130
KindForFullySpecified ==
    /\ pc = "L128"
    /\ LET full == ParseResourceArg(token).gvr
       IN  IF full # Nil
           THEN /\ gvk' = KindFor(index, full).gvk
                /\ issued' = Issue(issued, Query("KindFor", full, KindFor(index, full).err))
           ELSE UNCHANGED <<gvk, issued>>
    /\ pc' = "L131"
    /\ UNCHANGED <<index, entry, token, outcome, result, prev>>
    /\ UNCHANGED <<exampleVars, informerVars, serverVars>>

\* faulty variant of KindForGroupResource: the lookup is made whether or not the
\* fully-specified lookup has yielded a GVK
KindForGroupResourceAlways ==
    /\ pc = "L131"
    /\ LET gr == ParseResourceArg(token).gr
           q == GVR(gr.Group, << >>, gr.Resource)
       IN  /\ gvk' = KindFor(index, q).gvk
           /\ issued' = Issue(issued, Query("KindFor", q, KindFor(index, q).err))
    /\ pc' = "L134"
    /\ UNCHANGED <<index, entry, token, outcome, result, prev>>
    /\ UNCHANGED <<exampleVars, informerVars, serverVars>>

\* faulty variant of KindForGroupResource: the version-wildcard lookup is missing
KindForGroupResourceSkipped ==
    /\ pc = "L131"
    /\ pc' = "L134"
    /\ UNCHANGED <<index, entry, token, gvk, issued, outcome, result, prev>>
    /\ UNCHANGED <<exampleVars, informerVars, serverVars>>

\* faulty variant of KindForGroupResource: the lookup drops the group of the token
KindForBareResource ==
    /\ pc = "L131"
    /\ LET gr == ParseResourceArg(token).gr
           q == GVR(<< >>, << >>, gr.Resource)
       IN  IF Empty(gvk)
           THEN /\ gvk' = KindFor(index, q).gvk
                /\ issued' = Issue(issued, Query("KindFor", q, KindFor(index, q).err))
           ELSE UNCHANGED <<gvk, issued>>
    /\ pc' = "L134"
    /\ UNCHANGED <<index, entry, token, outcome, result, prev>>
    /\ UNCHANGED <<exampleVars, informerVars, serverVars>>

\* resourceSvc.go:131-133
KindForGroupResource ==
    /\ pc = "L131"
    /\ LET gr == ParseResourceArg(token).gr
           q == GVR(gr.Group, << >>, gr.Resource)
       IN  IF Empty(gvk)
           THEN /\ gvk' = KindFor(index, q).gvk
                /\ issued' = Issue(issued, Query("KindFor", q, KindFor(index, q).err))
           ELSE UNCHANGED <<gvk, issued>>
    /\ pc' = "L134"
    /\ UNCHANGED <<index, entry, token, outcome, result, prev>>
    /\ UNCHANGED <<exampleVars, informerVars, serverVars>>

\* faulty variant of MappingOfResolvedKind: when the resolved kind has no
\* mapping the call goes on to the kind-shaped parse instead of returning
MappingOfResolvedKindLenient ==
    /\ pc = "L134"
    /\ IF ~Empty(gvk)
       THEN LET r == RESTMapping(index, GroupKindOf(gvk.Group, gvk.Kind), gvk.Version)
            IN  /\ issued' = Issue(issued,
                        Query("RESTMapping", GVK(gvk.Group, gvk.Version, gvk.Kind), r.err))
                /\ IF r.err = NoErr
                   THEN /\ outcome' = Returned(r.mapping, r.err)
                        /\ result' = Deliver(entry, Returned(r.mapping, r.err))
                        /\ pc' = "done"
                   ELSE /\ pc' = "L138"
                        /\ UNCHANGED <<outcome, result>>
       ELSE /\ pc' = "L138"
            /\ UNCHANGED <<issued, outcome, result>>
    /\ UNCHANGED <<index, entry, token, gvk, prev>>
    /\ UNCHANGED <<exampleVars, informerVars, serverVars>>

\* faulty variant of MappingOfResolvedKind: the lookup is made with the kind the
\* token spells instead of the kind KindFor resolved
MappingOfResolvedKindByToken ==
    /\ pc = "L134"
    /\ IF ~Empty(gvk)
       THEN LET gk == ParseKindArg(token).gk
                r == RESTMapping(index, gk, gvk.Version)
            IN  /\ issued' = Issue(issued,
                        Query("RESTMapping", GVK(gk.Group, gvk.Version, gk.Kind), r.err))
                /\ outcome' = Returned(r.mapping, r.err)
                /\ result' = Deliver(entry, Returned(r.mapping, r.err))
                /\ pc' = "done"
       ELSE /\ pc' = "L138"
            /\ UNCHANGED <<issued, outcome, result>>
    /\ UNCHANGED <<index, entry, token, gvk, prev>>
    /\ UNCHANGED <<exampleVars, informerVars, serverVars>>

\* resourceSvc.go:134-136
MappingOfResolvedKind ==
    /\ pc = "L134"
    /\ IF ~Empty(gvk)
       THEN LET r == RESTMapping(index, GroupKindOf(gvk.Group, gvk.Kind), gvk.Version)
            IN  /\ issued' = Issue(issued,
                        Query("RESTMapping", GVK(gvk.Group, gvk.Version, gvk.Kind), r.err))
                /\ outcome' = Returned(r.mapping, r.err)
                /\ result' = Deliver(entry, Returned(r.mapping, r.err))
                /\ pc' = "done"
       ELSE /\ pc' = "L138"
            /\ UNCHANGED <<issued, outcome, result>>
    /\ UNCHANGED <<index, entry, token, gvk, prev>>
    /\ UNCHANGED <<exampleVars, informerVars, serverVars>>

\* fullySpecifiedGVK after resourceSvc.go:138-142
FullySpecifiedGVK(t) ==
    LET p == ParseKindArg(t)
    IN  IF p.gvk = Nil THEN GVK(p.gk.Group, << >>, p.gk.Kind) ELSE p.gvk

\* faulty variant of MappingOfKindArg: the early exit is tried only when
\* ParseKindArg itself produced a fully-specified GVK
MappingOfKindArgOnlyFullySpecified ==
    /\ pc = "L138"
    /\ LET k == FullySpecifiedGVK(token)
           r == RESTMapping(index, GroupKindOf(k.Group, k.Kind), k.Version)
       IN  IF ParseKindArg(token).gvk # Nil /\ ~Empty(k)
           THEN /\ issued' = Issue(issued, Query("RESTMapping", k, r.err))
                /\ IF r.err = NoErr
                   THEN /\ outcome' = Returned(r.mapping, NoErr)
                        /\ result' = Deliver(entry, Returned(r.mapping, NoErr))
                        /\ pc' = "done"
                   ELSE /\ pc' = "L150"
                        /\ UNCHANGED <<outcome, result>>
           ELSE /\ pc' = "L150"
                /\ UNCHANGED <<issued, outcome, result>>
    /\ UNCHANGED <<index, entry, token, gvk, prev>>
    /\ UNCHANGED <<exampleVars, informerVars, serverVars>>

\* resourceSvc.go:138-148
MappingOfKindArg ==
    /\ pc = "L138"
    /\ LET k == FullySpecifiedGVK(token)
           r == RESTMapping(index, GroupKindOf(k.Group, k.Kind), k.Version)
       IN  IF ~Empty(k)
           THEN /\ issued' = Issue(issued, Query("RESTMapping", k, r.err))
                /\ IF r.err = NoErr
                   THEN /\ outcome' = Returned(r.mapping, NoErr)
                        /\ result' = Deliver(entry, Returned(r.mapping, NoErr))
                        /\ pc' = "done"
                   ELSE /\ pc' = "L150"
                        /\ UNCHANGED <<outcome, result>>
           ELSE /\ pc' = "L150"
                /\ UNCHANGED <<issued, outcome, result>>
    /\ UNCHANGED <<index, entry, token, gvk, prev>>
    /\ UNCHANGED <<exampleVars, informerVars, serverVars>>

\* faulty variant of AfterLastLookup: after a no-match the call returns a mapping
\* made of what the parser found, without version, kind or scope
AfterLastLookupPartial(r, gr) ==
    IF r.err # NoErr
    THEN IF IsNoMatchError(r.err)
         THEN Returned([Resource |-> GVR(gr.Group, << >>, gr.Resource),
                        GroupVersionKind |-> EmptyGVK,
                        Scope |-> ""], NoErr)
         ELSE Returned(Nil, r.err)
    ELSE Returned(r.mapping, NoErr)

\* faulty variant of AfterLastLookup: a no-match is returned as the mapper made it
AfterLastLookupRaw(r, gr) ==
    IF r.err # NoErr THEN Returned(Nil, r.err) ELSE Returned(r.mapping, NoErr)

\* resourceSvc.go:151-158: what mappingFor returns after the lookup of line 150
\* answered r
AfterLastLookup(r, gr) ==
    IF r.err # NoErr
    THEN IF IsNoMatchError(r.err)
         THEN Returned(Nil, ErrNotFound(gr))
         ELSE Returned(Nil, r.err)
    ELSE Returned(r.mapping, NoErr)

\* faulty variant of MappingOfGroupKind: the last lookup is made with the
\* GroupKind of the (empty) gvk instead of the GroupKind of the kind-shaped parse
MappingOfEmptyGroupKind ==
    /\ pc = "L150"
    /\ LET gr == ParseResourceArg(token).gr
           r == RESTMapping(index, GroupKindOf(gvk.Group, gvk.Kind), gvk.Version)
       IN  /\ issued' = Issue(issued, Query("RESTMapping", gvk, r.err))
           /\ outcome' = AfterLastLookup(r, gr)
           /\ result' = Deliver(entry, AfterLastLookup(r, gr))
    /\ pc' = "done"
    /\ UNCHANGED <<index, entry, token, gvk, prev>>
    /\ UNCHANGED <<exampleVars, informerVars, serverVars>>

\* resourceSvc.go:150-158
MappingOfGroupKind ==
    /\ pc = "L150"
    /\ LET gk == ParseKindArg(token).gk
           gr == ParseResourceArg(token).gr
           r == RESTMapping(index, gk, gvk.Version)
       IN  /\ issued' = Issue(issued,
                   Query("RESTMapping", GVK(gk.Group, gvk.Version, gk.Kind), r.err))
           /\ outcome' = AfterLastLookup(r, gr)
           /\ result' = Deliver(entry, AfterLastLookup(r, gr))
    /\ pc' = "done"
    /\ UNCHANGED <<index, entry, token, gvk, prev>>
    /\ UNCHANGED <<exampleVars, informerVars, serverVars>>

----------------------------------------------------------------------------
(* mappingFor of restmapper/restmapper.go: the copy of the resolution      *)
(* logic in the RestMapper example.  exPc names the line of restmapper.go  *)
(* the copy is about to execute.  The copy is called with the token the    *)
(* service was called with, against the same mapper, once the call of the  *)
(* service has returned.                                                   *)

\* restmapper.go:139-141: no check of the token; the parse; gvk := GroupVersionKind{}
ExampleStart ==
    /\ exPc' = "L143"
    /\ exGvk' = EmptyGVK
    /\ exIssued' = << >>
    /\ exOutcome' = Pending

\* the service and the example are given the same token
CallBoth ==
    /\ pc = "idle"
    /\ exPc = "idle"
    /\ prev' = prev
    /\ \E t \in Tokens : Start("mappingFor", t)
    /\ ExampleStart
    /\ UNCHANGED <<informerVars, serverVars>>

\* restmapper.go:143-149
ExampleKindForFullySpecified ==
    /\ pc = "done"
    /\ exPc = "L143"
    /\ LET full == ParseResourceArg(token).gvr
       IN  IF full # Nil
           THEN /\ exGvk' = KindFor(index, full).gvk
                /\ exIssued' = Issue(exIssued, Query("KindFor", full, KindFor(index, full).err))
           ELSE UNCHANGED <<exGvk, exIssued>>
    /\ exPc' = "L151"
    /\ UNCHANGED <<serviceVars, exOutcome, informerVars, serverVars>>

\* faulty variant of ExampleKindForGroupResource: the lookup drops the group
ExampleKindForBareResource ==
    /\ pc = "done"
    /\ exPc = "L151"
    /\ LET gr == ParseResourceArg(token).gr
           q == GVR(<< >>, << >>, gr.Resource)
       IN  IF Empty(exGvk)
           THEN /\ exGvk' = KindFor(index, q).gvk
                /\ exIssued' = Issue(exIssued, Query("KindFor", q, KindFor(index, q).err))
           ELSE UNCHANGED <<exGvk, exIssued>>
    /\ exPc' = "L159"
    /\ UNCHANGED <<serviceVars, exOutcome, informerVars, serverVars>>

\* restmapper.go:151-157
ExampleKindForGroupResource ==
    /\ pc = "done"
    /\ exPc = "L151"
    /\ LET gr == ParseResourceArg(token).gr
           q == GVR(gr.Group, << >>, gr.Resource)
       IN  IF Empty(exGvk)
           THEN /\ exGvk' = KindFor(index, q).gvk
                /\ exIssued' = Issue(exIssued, Query("KindFor", q, KindFor(index, q).err))
           ELSE UNCHANGED <<exGvk, exIssued>>
    /\ exPc' = "L159"
    /\ UNCHANGED <<serviceVars, exOutcome, informerVars, serverVars>>

\* restmapper.go:159-161
ExampleMappingOfResolvedKind ==
    /\ pc = "done"
    /\ exPc = "L159"
    /\ IF ~Empty(exGvk)
       THEN LET r == RESTMapping(index, GroupKindOf(exGvk.Group, exGvk.Kind), exGvk.Version)
            IN  /\ exIssued' = Issue(exIssued,
                        Query("RESTMapping", GVK(exGvk.Group, exGvk.Version, exGvk.Kind), r.err))
                /\ exOutcome' = Returned(r.mapping, r.err)
                /\ exPc' = "done"
       ELSE /\ exPc' = "L165"
            /\ UNCHANGED <<exIssued, exOutcome>>
    /\ UNCHANGED <<serviceVars, exGvk, informerVars, serverVars>>

\* restmapper.go:163-168: the direct mapping, returned as the mapper answers
ExampleDirectMapping ==
    /\ pc = "done"
    /\ exPc = "L165"
    /\ LET gr == ParseResourceArg(token).gr
           r == RESTMapping(index, GroupKindOf(gr.Group, gr.Resource), << >>)
       IN  /\ exIssued' = Issue(exIssued,
                   Query("RESTMapping", GVK(gr.Group, << >>, gr.Resource), r.err))
           /\ exOutcome' = Returned(r.mapping, r.err)
    /\ exPc' = "done"
    /\ UNCHANGED <<serviceVars, exGvk, informerVars, serverVars>>

\* the steps of the example's mappingFor once it is entered
ExampleSteps ==
    \/ ExampleKindForFullySpecified
    \/ ExampleKindForGroupResource
    \/ ExampleMappingOfResolvedKind
    \/ ExampleDirectMapping

----------------------------------------------------------------------------

(* The informer example: main of informer/informer.go and NewK8sConfig of   *)
(* informer/config/kubeconfig.go, with the flag package's command-line     *)
(* FlagSet (flag.CommandLine, error handling flag.ExitOnError).  An        *)
(* argument is a flag written --name=value.  inPc names the line of         *)
(* informer.go that main is about to execute.                              *)

Flag(n, v) == [name |-> n, value |-> v]

\* the arguments a command line of the model is made of
Arguments ==
    {Flag("type", v) : v \in {"all", "basic", "bogus"}}
        \cup {Flag("namespace", v) : v \in {"default", "kube-system"}}
        \cup {Flag("kubeconfig", "/tmp/kubeconfig")}

CommandLines == UNION {[1..n -> Arguments] : n \in 0..MaxArgs}

\* homedir.HomeDir(): empty when no home directory is known
Homes == {"", "/home/dev"}

\* flag.String(name, value, usage): defines the flag with its default value
Define(fs, n, v) == fs \cup {Flag(n, v)}

Defined(fs) == {f.name : f \in fs}

\* the value of a defined flag (what the pointer flag.String returned points at)
ValueOf(fs, n) == (CHOOSE f \in fs : f.name = n).value

\* FlagSet.Set
SetFlag(fs, n, v) == {f \in fs : f.name # n} \cup {Flag(n, v)}

\* FlagSet.Parse: the arguments are taken in order; one that names no defined
\* flag ends the parse with an error ("flag provided but not defined")
RECURSIVE ParseArgs(_, _)
ParseArgs(fs, as) ==
    IF as = << >> THEN [flags |-> fs, ok |-> TRUE]
    ELSE IF Head(as).name \notin Defined(fs) THEN [flags |-> fs, ok |-> FALSE]
    ELSE ParseArgs(SetFlag(fs, Head(as).name, Head(as).value), Tail(as))

\* the process is started with a command line
InitInformer ==
    /\ index = IndexOf({}, {}, {})
    /\ ServiceIdle
    /\ ExampleIdle
    /\ ServerIdle
    /\ args \in CommandLines
    /\ home \in Homes
    /\ flagSet = {}
    /\ parsed = FALSE
    /\ inPc = "L237"
    /\ exitCode = -1
    /\ kubeConfig = Nil
    /\ namespace = ""

\* informer.go:237-238: exampleType := flag.String("type", "all", ...)
MainDefineType ==
    /\ inPc = "L237"
    /\ flagSet' = Define(flagSet, "type", "all")
    /\ inPc' = "L239"
    /\ UNCHANGED <<args, home, parsed, exitCode, kubeConfig, namespace>>
    /\ UNCHANGED <<serviceVars, exampleVars, serverVars>>

\* informer.go:239: flag.Parse(); on an error the flag package exits with status 2
MainParse ==
    /\ inPc = "L239"
    /\ parsed' = TRUE
    /\ flagSet' = ParseArgs(flagSet, args).flags
    /\ IF ParseArgs(flagSet, args).ok
       THEN inPc' = "L242" /\ UNCHANGED exitCode
       ELSE inPc' = "exited" /\ exitCode' = 2
    /\ UNCHANGED <<args, home, kubeConfig, namespace>>
    /\ UNCHANGED <<serviceVars, exampleVars, serverVars>>

\* the flags NewK8sConfig defines (kubeconfig.go:27-35)
ConfigFlags(fs, h) ==
    Define(Define(fs, "kubeconfig", IF h # "" THEN h \o "/.kube/config" ELSE ""),
           "namespace", "default")

\* informer.go:242: config.NewK8sConfig() (kubeconfig.go:22-46)
NewK8sConfig ==
    /\ inPc = "L242"
    /\ LET defined == ConfigFlags(flagSet, home)
           p == IF parsed THEN [flags |-> defined, ok |-> TRUE] ELSE ParseArgs(defined, args)
       IN  /\ flagSet' = p.flags
           /\ parsed' = TRUE
           /\ IF p.ok
              THEN /\ kubeConfig' = [KubeConfigPath |-> ValueOf(p.flags, "kubeconfig"),
                                     Namespace |-> ValueOf(p.flags, "namespace"),
                                     err |-> ""]
                   /\ inPc' = "L243"
                   /\ UNCHANGED exitCode
              ELSE /\ inPc' = "exited"
                   /\ exitCode' = 2
                   /\ UNCHANGED kubeConfig
    /\ UNCHANGED <<args, home, namespace>>
    /\ UNCHANGED <<serviceVars, exampleVars, serverVars>>

\* informer.go:243-249: InitRestConfig().InitClientSet(), which succeeds or
\* leaves an error in the K8sConfig; namespace := kubeConfig.Namespace; an
\* error ends the process through log.Fatalf
MainInitClient ==
    /\ inPc = "L243"
    /\ namespace' = kubeConfig.Namespace
    /\ \E e \in {"", "failed to build kubeconfig"} :
          /\ kubeConfig' = [kubeConfig EXCEPT !.err = e]
          /\ IF e = ""
             THEN inPc' = "L252" /\ UNCHANGED exitCode
             ELSE inPc' = "exited" /\ exitCode' = 1
    /\ UNCHANGED <<args, home, flagSet, parsed>>
    /\ UNCHANGED <<serviceVars, exampleVars, serverVars>>

\* the values of --type that main knows (informer.go:265-276)
ExampleTypes == {"basic", "shared", "factory", "lister", "resource", "all"}

\* informer.go:252-285: the ListWatch and the informers of the requested
\* example are made for namespace; an unknown type ends the process
MainRunInformers ==
    /\ inPc = "L252"
    /\ IF ValueOf(flagSet, "type") \in ExampleTypes
       THEN inPc' = "running" /\ UNCHANGED exitCode
       ELSE inPc' = "exited" /\ exitCode' = 1
    /\ UNCHANGED <<args, home, flagSet, parsed, kubeConfig, namespace>>
    /\ UNCHANGED <<serviceVars, exampleVars, serverVars>>

NextInformer ==
    \/ MainDefineType
    \/ MainParse
    \/ NewK8sConfig
    \/ MainInitClient
    \/ MainRunInformers

SpecInformer == InitInformer /\ [][NextInformer]_vars

----------------------------------------------------------------------------

\* the steps of mappingFor once it is entered
Steps ==
    \/ KindForFullySpecified
    \/ KindForGroupResource
    \/ MappingOfResolvedKind
    \/ MappingOfKindArg
    \/ MappingOfGroupKind

Next == Call \/ Steps

Spec == Init /\ [][Next]_vars

\* mappingFor invoked by a caller that repeats its calls
NextRepeat == CallMappingFor \/ Again \/ Steps

SpecRepeat == Init /\ [][NextRepeat]_vars

\* the two copies of the resolution logic, given the same token
NextBoth == CallBoth \/ Steps \/ ExampleSteps

SpecBoth == Init /\ [][NextBoth]_vars

----------------------------------------------------------------------------
(* Properties. *)

Done == pc = "done"

\* the queries of this call that failed with an error other than a no-match
FailedOtherwise == {i \in DOMAIN issued : issued[i].err.class \notin {"nil", "NoMatch"}}

\* C1: a call of mappingFor or of GetGVR with the empty token returns the error
\* "resource type cannot be empty" whatever the index holds, and sends no
\* query to the index.
C1_EmptyTokenRejected ==
    (pc # "idle" /\ token = << >>) =>
        /\ Done
        /\ issued = << >>
        /\ result = [value |-> Nil, err |-> ErrEmptyToken]
        /\ entry = "mappingFor" => outcome = Returned(Nil, ErrEmptyToken)

C1_Witness ==
    /\ Done
    /\ token = << >>
    /\ entry = "mappingFor"
    /\ index = IndexOf(Types, Types, {})

\* C2: a call in which a query (either KindFor, the early-exit RESTMapping or
\* the last RESTMapping) failed with an error that is not a no-match returns
\* that very error; it neither succeeds nor fails with another error.
C2_OtherFailureSurfaced ==
    Done => \A i \in FailedOtherwise : outcome = Returned(Nil, issued[i].err)

\* C3: when the last RESTMapping lookup of a call fails with a no-match, the
\* call returns the error "the server doesn't have a resource type <resource>"
\* for the resource of the parsed GroupResource.
C3_NoMatchBecomesNotFound ==
    (Done /\ issued # << >> /\ issued[Len(issued)].op = "RESTMapping"
          /\ IsNoMatchError(issued[Len(issued)].err)) =>
        outcome = Returned(Nil, ErrNotFound(ParseResourceArg(token).gr))

\* the call has failed with the error mappingFor builds at resourceSvc.go:153
FailedNotFound == Done /\ outcome # Pending /\ outcome.err.class = "NotFound"

\* C4 (as claimed): the message of every NotFound failure contains the token
\* as the caller supplied it.
C4_MessageHasWholeToken ==
    (FailedNotFound /\ token # << >>) => Contains(outcome.err.msg, token)

\* C4 (amended): the message of every NotFound failure contains, in quotes,
\* the resource segment of the token (what precedes its first dot); it
\* contains the whole token exactly when the token has no dot.
C4_MessageHasResourceSegment ==
    (FailedNotFound /\ token # << >>) =>
        /\ Contains(outcome.err.msg, Quote(ParseResourceArg(token).gr.Resource))
        /\ Contains(outcome.err.msg, token) <=> CountDots(token) = 0

C4_Witness ==
    /\ FailedNotFound
    /\ token = <<"deployments", Dot, "apps">>
    /\ index = IndexOf({PodType}, {PodType}, {})

\* C5: a dotless token for which every query of the call answers no-match
\* fails with NotFound, and the message contains the token.
C5_UnknownDotlessToken ==
    (Done /\ token # << >> /\ CountDots(token) = 0
          /\ \A i \in DOMAIN issued : IsNoMatchError(issued[i].err)) =>
        /\ outcome.mapping = Nil
        /\ outcome.err.class = "NotFound"
        /\ Contains(outcome.err.msg, token)

C5_Witness ==
    /\ Done
    /\ token = <<"nonexistentthing">>
    /\ index = IndexOf(Types, Types, {})
    /\ outcome.err.class = "NotFound"
    /\ \A i \in DOMAIN issued : IsNoMatchError(issued[i].err)

\* the KindFor queries of a call precede its RESTMapping queries
KindForFirst ==
    \A i, j \in DOMAIN issued :
        (i < j /\ issued[i].op = "RESTMapping") => issued[j].op = "RESTMapping"

\* C6 (as claimed): a call sends at most three queries to the index.
C6_AtMostThreeQueries == Len(issued) <= 3

\* C6 (amended): a call sends at most four queries to the index, one per
\* step: at most two KindFor queries, then at most two RESTMapping queries.
C6_AtMostFourQueries ==
    /\ Len(issued) <= 4
    /\ Cardinality({i \in DOMAIN issued : issued[i].op = "KindFor"}) <= 2
    /\ Cardinality({i \in DOMAIN issued : issued[i].op = "RESTMapping"}) <= 2
    /\ KindForFirst
    /\ pc = "L128" => Len(issued) = 0
    /\ pc = "L131" => Len(issued) <= 1
    /\ pc \in {"L134", "L138"} => Len(issued) <= 2
    /\ pc = "L150" => Len(issued) <= 3

C6_Witness == Done /\ Len(issued) = 4 /\ index \in Healthy

\* C7: no call sends the same query (same operation, same arguments) twice.
C7_NoQueryRepeated ==
    \A i, j \in DOMAIN issued :
        (issued[i].op = issued[j].op /\ issued[i].arg = issued[j].arg) => i = j

\* C8: a call repeated with the same arguments returns what the previous call
\* returned, and no step of a call changes the index the service points at.
C8_Idempotent ==
    [][/\ index' = index
       /\ (pc' = "done" /\ prev' # Pending) => result' = prev']_vars

C8_Witness ==
    /\ Done
    /\ prev # Pending
    /\ result = prev
    /\ result.err = NoErr
    /\ token = <<"pods">>
    /\ index = IndexOf(Types, Types, {})

\* the index of the scenario: one type, {"", v1, Pod, pods, Namespaced}
OnlyPods == IndexOf({PodType}, {PodType}, {})

PodMapping ==
    [Resource |-> GVR(<< >>, <<"v1">>, <<"pods">>),
     GroupVersionKind |-> GVK(<< >>, <<"v1">>, <<"Pod">>),
     Scope |-> "namespace"]

\* C9 (as claimed): against the index that registers only pods, "pods" and
\* "Pod" both resolve to the Pod mapping, "Pod" through the kind-shaped parse
\* after two KindFor lookups that both yielded an empty GVK.
C9_PodViaKindShapedParse ==
    (index = OnlyPods /\ Done /\ token \in {<<"pods">>, <<"Pod">>}) =>
        /\ outcome = Returned(PodMapping, NoErr)
        /\ token = <<"Pod">> =>
              /\ Len(issued) = 3
              /\ issued[1].op = "KindFor" /\ issued[1].err # NoErr
              /\ issued[2].op = "KindFor" /\ issued[2].err # NoErr
              /\ issued[3] = Query("RESTMapping", FullySpecifiedGVK(token), NoErr)

\* C9 (amended): against the index that registers only pods, "pods" and "Pod"
\* both resolve to the Pod mapping; "Pod" has no fully-specified GVR, so the
\* only KindFor lookup is the version-wildcard one, it already yields the
\* GVK {"", v1, Pod}, and the mapping is the RESTMapping of that GVK: the
\* kind-shaped parse is not reached.
C9_PodsAndPod ==
    (index = OnlyPods /\ Done /\ token \in {<<"pods">>, <<"Pod">>}) =>
        /\ outcome = Returned(PodMapping, NoErr)
        /\ issued = <<Query("KindFor", GVR(<< >>, << >>, token), NoErr),
                      Query("RESTMapping", GVK(<< >>, <<"v1">>, <<"Pod">>), NoErr)>>

C9_Witness ==
    /\ index = OnlyPods
    /\ Done
    /\ token = <<"Pod">>
    /\ outcome = Returned(PodMapping, NoErr)

AppsDeploymentMapping ==
    [Resource |-> GVR(<<"apps">>, <<"v1">>, <<"deployments">>),
     GroupVersionKind |-> GVK(<<"apps">>, <<"v1">>, <<"Deployment">>),
     Scope |-> "namespace"]

\* C10: when the index registers "deployments" under apps/v1 and under
\* extensions/v1beta1, "deployments.apps" never resolves to the extensions
\* variant, and against a healthy index it resolves to the apps mapping.
C10_AppsVariantWins ==
    (Done /\ token = <<"deployments", Dot, "apps">>
          /\ {DeploymentApps, DeploymentExtensions} \subseteq index.kinds) =>
        /\ outcome.err = NoErr => outcome.mapping = AppsDeploymentMapping
        /\ index \in Healthy => outcome = Returned(AppsDeploymentMapping, NoErr)

C10_Witness ==
    /\ Done
    /\ token = <<"deployments", Dot, "apps">>
    /\ index = IndexOf(Types, Types, {})
    /\ outcome = Returned(AppsDeploymentMapping, NoErr)

\* the groups the index registers a type under
RegisteredGroups == {t.Group : t \in index.kinds \cup index.mappings}

\* the call is over and has returned a mapping
Resolved == Done /\ outcome # Pending /\ outcome.err = NoErr

\* the token has the form resource.group, both segments present
ResourceDotGroup ==
    /\ CountDots(token) = 1
    /\ Len(ParseResourceArg(token).gr.Resource) > 0
    /\ Len(ParseResourceArg(token).gr.Group) > 0

\* C11 (as claimed): for a token resource.group whose group is registered in
\* the index, the GVK of a returned mapping has that group.
C11_GroupOfTokenReturned ==
    (Resolved /\ ResourceDotGroup
              /\ ParseResourceArg(token).gr.Group \in RegisteredGroups) =>
        outcome.mapping.GroupVersionKind.Group = ParseResourceArg(token).gr.Group

\* C11 (amended): for a token resource.group, the group of the GVK of a
\* returned mapping starts with the group of the token; it is that group when
\* no other registered group starts with it.
C11_GroupOfTokenIsPrefix ==
    (Resolved /\ ResourceDotGroup) =>
        LET g == ParseResourceArg(token).gr.Group
            got == outcome.mapping.GroupVersionKind.Group
        IN  /\ HasPrefix(got, g)
            /\ (\A h \in RegisteredGroups : HasPrefix(h, g) => h = g) => got = g

C11_Witness ==
    /\ Resolved
    /\ token = <<"clonesets", Dot, "apps">>
    /\ index = IndexOf({DeploymentApps, CloneSetType}, {DeploymentApps, CloneSetType}, {})
    /\ outcome.mapping.GroupVersionKind.Group = CloneSetType.Group

\* the fully-specified GVR the parser made of the token, Nil when it made none
FullGVR == ParseResourceArg(token).gvr

\* the types registered with a mapping that the fully-specified GVR names
\* exactly: same group, same version, same plural resource name
FullMatches ==
    IF FullGVR = Nil THEN {}
    ELSE {t \in index.kinds \cap index.mappings :
             /\ t.Group = FullGVR.Group
             /\ t.Version = FullGVR.Version
             /\ t.Resource = FullGVR.Resource}

\* C12: a token of three segments (resource.version.group as ParseResourceArg
\* splits it) that fully matches a type registered in a reachable index
\* resolves to a mapping whose GVK has the version of the token, with two
\* queries: KindFor of the fully-specified GVR, then RESTMapping of the GVK
\* it yielded.  Whenever that first KindFor yields a GVK, no second KindFor
\* and no query of the kind-shaped parse follows.
C12_FullySpecifiedPath ==
    /\ (Done /\ FullMatches # {} /\ index.down = {}) =>
          /\ outcome.err = NoErr
          /\ outcome.mapping.GroupVersionKind.Version = FullGVR.Version
          /\ \E t \in FullMatches :
                issued = <<Query("KindFor", FullGVR, NoErr),
                           Query("RESTMapping", GVK(t.Group, t.Version, t.Kind), NoErr)>>
    /\ (FullGVR # Nil /\ Len(issued) >= 1 /\ issued[1].err = NoErr) =>
          /\ issued[1] = Query("KindFor", FullGVR, NoErr)
          /\ Len(issued) <= 2
          /\ Len(issued) = 2 =>
                /\ issued[2].op = "RESTMapping"
                /\ issued[2].arg = KindFor(index, FullGVR).gvk
                /\ Done

C12_Witness ==
    /\ Done
    /\ token = <<"deployments", Dot, "v1", Dot, "apps">>
    /\ index = IndexOf(Types, Types, {})
    /\ outcome = Returned(AppsDeploymentMapping, NoErr)
    /\ Len(issued) = 2

\* the resource segment of the token: what precedes its first dot
ResourceSegment == ParseResourceArg(token).gr.Resource

\* the groups that register the resource segment as the plural name of a type
GroupsOfPlural == {t.Group : t \in {u \in index.kinds : u.Resource = ResourceSegment}}

\* C13: when the resource segment of the token is a plural name the index
\* registers under exactly one group, the GVR of every returned mapping has
\* that segment as its resource; against a healthy index a token that is
\* just that plural name does resolve.
C13_ResourceOfTokenReturned ==
    /\ (Resolved /\ Cardinality(GroupsOfPlural) = 1) =>
          outcome.mapping.Resource.Resource = ResourceSegment
    /\ (Done /\ CountDots(token) = 0 /\ Cardinality(GroupsOfPlural) = 1
              /\ index \in Healthy) =>
          outcome.err = NoErr

C13_Witness ==
    /\ Resolved
    /\ token = <<"deployments">>
    /\ index = IndexOf({PodType, DeploymentApps}, {PodType, DeploymentApps}, {})
    /\ outcome.mapping.Resource = GVR(<<"apps">>, <<"v1">>, <<"deployments">>)

\* the mapping the index holds for type t
MappingOfType(t) ==
    [Resource |-> GVR(t.Group, t.Version, t.Resource),
     Scope |-> IF t.Namespaced THEN "namespace" ELSE "root"]

\* C14: a call returns either a mapping and no error, or an error and no
\* mapping.  A returned mapping is complete: its GVR and scope are those of a
\* type the index holds a mapping for, its GVK has that type's group and
\* version and a kind, and its resource is not empty.
C14_NoPartialMapping ==
    (Done /\ outcome # Pending) =>
        /\ outcome.err # NoErr => outcome.mapping = Nil
        /\ outcome.err = NoErr =>
              /\ outcome.mapping # Nil
              /\ Len(outcome.mapping.Resource.Resource) > 0
              /\ Len(outcome.mapping.GroupVersionKind.Kind) > 0
              /\ \E t \in index.mappings :
                    /\ outcome.mapping.Resource = MappingOfType(t).Resource
                    /\ outcome.mapping.Scope = MappingOfType(t).Scope
                    /\ outcome.mapping.GroupVersionKind.Group = t.Group
                    /\ outcome.mapping.GroupVersionKind.Version = t.Version
        /\ result.err = outcome.err
        /\ result.err # NoErr => result.value = Nil

C14_Witness ==
    /\ Done
    /\ token = <<"pods">>
    /\ index = IndexOf({PodType}, {}, {})
    /\ outcome.mapping = Nil
    /\ IsNoMatchError(outcome.err)

\* both copies have returned
BothDone == Done /\ exPc = "done"

\* the KindFor queries among the queries of log, in order
KindForQueries(log) == SelectSeq(log, LAMBDA q : q.op = "KindFor")

\* a KindFor query of the service's call yielded a GVK
KindResolved == \E i \in DOMAIN issued : issued[i].op = "KindFor" /\ issued[i].err = NoErr

\* C15 (as claimed): the two copies send the same queries to the index and
\* return the same outcome: the same mapping, or a failure of the same kind.
C15_CopiesEquivalent ==
    BothDone =>
        /\ exIssued = issued
        /\ exOutcome.mapping = outcome.mapping
        /\ exOutcome.err.class = outcome.err.class

\* C15 (amended): for a non-empty token the two copies send the same KindFor
\* queries and, when one of them yields a GVK, the same RESTMapping query and
\* the same outcome.  When none does, the example sends one RESTMapping query
\* and returns its answer as it is; for a token of fewer than two dots the
\* service then succeeds exactly when the example does, with the same
\* mapping, and fails with NotFound where the example fails with a no-match
\* and with the example's error otherwise.
C15_CopiesAgreeOnResolvedKind ==
    (BothDone /\ token # << >>) =>
        /\ KindForQueries(exIssued) = KindForQueries(issued)
        /\ KindResolved => (exIssued = issued /\ exOutcome = outcome)
        /\ ~KindResolved =>
              /\ Len(exIssued) = Len(KindForQueries(exIssued)) + 1
              /\ exOutcome.err = exIssued[Len(exIssued)].err
        /\ (~KindResolved /\ CountDots(token) < 2) =>
              /\ exOutcome.mapping = outcome.mapping
              /\ outcome.err =
                    IF IsNoMatchError(exOutcome.err)
                    THEN ErrNotFound(ParseResourceArg(token).gr)
                    ELSE exOutcome.err

C15_Witness ==
    /\ BothDone
    /\ token = <<"deployments", Dot, "apps">>
    /\ index = IndexOf(Types, Types, {})
    /\ exOutcome = Returned(AppsDeploymentMapping, NoErr)
    /\ outcome = exOutcome
    /\ exIssued = issued

\* the values the command line gives for flag n, in order
Supplied(n) == SelectSeq(args, LAMBDA a : a.name = n)

\* C16: a command line that gives --namespace (with or without --type and
\* --kubeconfig) is accepted: the process does not exit on parsing it, and the
\* K8sConfig has the namespace given last, which the informers then watch.
C16_NamespaceFlagHonoured ==
    Supplied("namespace") # << >> =>
        /\ exitCode # 2
        /\ kubeConfig # Nil =>
              kubeConfig.Namespace = Supplied("namespace")[Len(Supplied("namespace"))].value
        /\ inPc = "running" =>
              namespace = Supplied("namespace")[Len(Supplied("namespace"))].value

\* the GroupResource of the token with the empty version
WildcardGVR ==
    GVR(ParseResourceArg(token).gr.Group, << >>, ParseResourceArg(token).gr.Resource)

\* the number of KindFor steps that query the index for this token
KindForSteps == IF FullGVR # Nil THEN 2 ELSE 1

\* C17: the chain is ordered and gated by the emptiness of the GVK.  KindFor of
\* the fully-specified GVR is the first query, and is made only when the
\* parser produced one; KindFor of the GroupResource with the empty version
\* is made only while the GVK is still empty (first when there is no
\* fully-specified GVR, second after the first lookup yielded no GVK); the
\* kind-shaped parse and its RESTMapping are reached only with an empty GVK,
\* after every KindFor step has been made and yielded none.
C17_ChainOrderedAndGated ==
    (pc # "idle" /\ token # << >>) =>
        /\ KindForFirst
        /\ \A i \in DOMAIN issued : issued[i].op = "KindFor" =>
              /\ i <= KindForSteps
              /\ (i = 1 /\ FullGVR # Nil) => issued[i].arg = FullGVR
              /\ (i = 1 /\ FullGVR = Nil) => issued[i].arg = WildcardGVR
              /\ i = 2 => (issued[i].arg = WildcardGVR /\ issued[1].err # NoErr)
        /\ pc \in {"L134", "L138", "L150", "done"} =>
              \/ KindResolved
              \/ Len(KindForQueries(issued)) = KindForSteps
        /\ pc \in {"L138", "L150"} => (Empty(gvk) /\ ~KindResolved)
        /\ \A i \in DOMAIN issued : issued[i].op = "RESTMapping" =>
              IF KindResolved
              THEN /\ i = Len(issued)
                   /\ issued[i - 1].op = "KindFor"
                   /\ issued[i - 1].err = NoErr
                   /\ issued[i].arg = gvk
              ELSE /\ Empty(gvk)
                   /\ Len(KindForQueries(issued)) = KindForSteps

C17_Witness ==
    /\ Done
    /\ token = <<"pods", Dot, "v1", Dot, "apps">>
    /\ index = IndexOf(Types, Types, {})
    /\ Len(KindForQueries(issued)) = 2
    /\ Len(issued) = 4

\* C18: when a KindFor step has yielded a GVK, the call ends with one
\* RESTMapping query, made with the GroupKind and the version of that GVK, and
\* returns exactly what that query answers, mapping or error, also when the
\* index holds no mapping for the GVK; the kind-shaped parse is not reached.
C18_ResolvedKindDecides ==
    (Done /\ KindResolved) =>
        LET n == Len(issued)
            k == KindFor(index, issued[n - 1].arg).gvk
            r == RESTMapping(index, GroupKindOf(k.Group, k.Kind), k.Version)
        IN  /\ issued[n - 1].op = "KindFor"
            /\ issued[n - 1].err = NoErr
            /\ ~Empty(k)
            /\ issued[n] = Query("RESTMapping", k, r.err)
            /\ outcome = Returned(r.mapping, r.err)
            /\ Len(SelectSeq(issued, LAMBDA q : q.op = "RESTMapping")) = 1

C18_Witness ==
    /\ Done
    /\ KindResolved
    /\ token = <<"deployments", Dot, "apps">>
    /\ index = IndexOf({DeploymentApps, DeploymentExtensions}, {DeploymentExtensions}, {})
    /\ outcome.mapping = Nil
    /\ outcome.err = RESTMapping(index, GroupKindOf(<<"apps">>, <<"Deployment">>), <<"v1">>).err
    /\ IsNoMatchError(outcome.err)

\* the RESTMapping queries among the queries of log, in order
MappingQueries(log) == SelectSeq(log, LAMBDA q : q.op = "RESTMapping")

\* the call has ended with the lookup of line 150: no KindFor yielded a GVK and
\* the early exit was either not attempted or failed
TerminalReached ==
    /\ Done
    /\ token # << >>
    /\ ~KindResolved
    /\ \/ Len(MappingQueries(issued)) = 2
       \/ Empty(FullySpecifiedGVK(token))

\* C19 (as claimed): the last lookup of the chain is RESTMapping of the
\* GroupKind and the version of the GVK the chain resolved, and of the empty
\* GroupKind and the empty version when that GVK is still empty.
C19_TerminalLookupOfResolvedGVK ==
    ((Done /\ KindResolved) \/ TerminalReached) =>
        issued[Len(issued)].arg = (IF KindResolved THEN gvk ELSE EmptyGVK)

\* C19 (amended): when a KindFor step resolved a GVK the last lookup is
\* RESTMapping of its GroupKind and version; when the GVK is still empty the
\* last lookup is RESTMapping of the GroupKind of the kind-shaped parse of
\* the token (kind: what precedes the first dot, group: what follows it)
\* with the empty version.
C19_TerminalLookupOfKindArg ==
    ((Done /\ KindResolved) \/ TerminalReached) =>
        /\ issued[Len(issued)].op = "RESTMapping"
        /\ issued[Len(issued)].arg =
              IF KindResolved THEN gvk
              ELSE GVK(ParseKindArg(token).gk.Group, << >>, ParseKindArg(token).gk.Kind)

C19_Witness ==
    /\ TerminalReached
    /\ token = <<"pods", Dot, "apps">>
    /\ index = OnlyPods
    /\ issued[Len(issued)].arg = GVK(<<"apps">>, << >>, <<"pods">>)
    /\ outcome.err.class = "NotFound"

\* the GVK the kind-shaped step tries: the fully-specified GVK ParseKindArg
\* produced or, when it produced none, its GroupKind with the empty version
KindShapedGVK ==
    IF ParseKindArg(token).gvk # Nil
    THEN ParseKindArg(token).gvk
    ELSE GVK(ParseKindArg(token).gk.Group, << >>, ParseKindArg(token).gk.Kind)

\* what the index answers to the early-exit query
EarlyAnswer ==
    RESTMapping(index, GroupKindOf(KindShapedGVK.Group, KindShapedGVK.Kind),
                KindShapedGVK.Version)

\* C20 (as claimed): the early-exit RESTMapping query is sent only when
\* ParseKindArg produced a fully-specified, non-empty GVK; for any other token
\* the call reaches the last lookup without having sent a RESTMapping query.
C20_EarlyExitOnlyWhenFullySpecified ==
    pc = "L150" =>
        (MappingQueries(issued) # << >> =>
            (ParseKindArg(token).gvk # Nil /\ ~Empty(ParseKindArg(token).gvk)))

\* C20 (amended): the early-exit RESTMapping query is sent whenever the GVK
\* of the kind-shaped step is not empty, be it the fully-specified GVK that
\* ParseKindArg produced or, when it produced none, its GroupKind with the
\* empty version; only for an empty one does the call go to the last lookup
\* without it.  When the query succeeds its mapping is returned at once,
\* without the last lookup; when it fails the last lookup follows.
C20_EarlyExitOfKindShapedGVK ==
    /\ pc = "L150" =>
          MappingQueries(issued) =
              IF Empty(KindShapedGVK) THEN << >>
              ELSE <<Query("RESTMapping", KindShapedGVK, EarlyAnswer.err)>>
    /\ pc = "L150" => (Empty(KindShapedGVK) \/ EarlyAnswer.err # NoErr)
    /\ (Done /\ token # << >> /\ ~KindResolved) =>
          IF ~Empty(KindShapedGVK) /\ EarlyAnswer.err = NoErr
          THEN /\ MappingQueries(issued) = <<Query("RESTMapping", KindShapedGVK, NoErr)>>
               /\ outcome = Returned(EarlyAnswer.mapping, NoErr)
          ELSE /\ TerminalReached
               /\ Len(MappingQueries(issued)) = (IF Empty(KindShapedGVK) THEN 1 ELSE 2)

C20_Witness ==
    /\ Done
    /\ ~KindResolved
    /\ token = <<"Pod">>
    /\ ParseKindArg(token).gvk = Nil
    /\ index = IndexOf({PodType}, {PodType}, {"KindFor"})
    /\ MappingQueries(issued) = <<Query("RESTMapping", GVK(<< >>, << >>, <<"Pod">>), NoErr)>>
    /\ outcome = Returned(PodMapping, NoErr)

----------------------------------------------------------------------------
(* Several callers of one ResourceService.  The gin server runs every      *)
(* request on a goroutine of its own; the handlers share the one           *)
(* *ResourceService built in main (kapi.go:37-39) and so the one mapper.   *)
(* The variables pc .. prev are the locals of the goroutine that is        *)
(* running; the Go scheduler may switch to another goroutine between any   *)
(* two statements, which saves these locals and restores the other's.      *)

\* the mappers the concurrent callers are run against: every built-in type
\* served; one type without a mapping; KindFor failing with a transport error
ConcurrentIndexes ==
    {IndexOf(BuiltIn, BuiltIn, {}),
     IndexOf(BuiltIn, BuiltIn \ {DeploymentApps}, {}),
     IndexOf(BuiltIn, BuiltIn, {"KindFor"})}

\* the tokens the concurrent callers pass
ConcurrentTokens ==
    {<< >>, <<"pods">>, <<"nonexistentthing">>,
     <<"deployments", Dot, "apps">>, <<"deployments", Dot, "v1", Dot, "apps">>}

InitConcurrent ==
    /\ index \in ConcurrentIndexes
    /\ ServiceIdle
    /\ ExampleIdle
    /\ InformerIdle
    /\ ServerIdle

\* the locals of the running goroutine
Running ==
    [pc |-> pc, entry |-> entry, token |-> token, gvk |-> gvk,
     issued |-> issued, outcome |-> outcome, result |-> result, prev |-> prev]

\* the locals of goroutine c
CtxOf(c) == IF c = cur THEN Running ELSE parked[c]

\* faulty variant of Switch: gvk is a field shared by all callers of the
\* service instead of a local of mappingFor, so a switch leaves it as it is
SwitchSharingGvk(c) ==
    /\ c # cur
    /\ solo => pc = "done"
    /\ parked' = [parked EXCEPT ![cur] = Running, ![c] = IdleCtx]
    /\ pc' = parked[c].pc
    /\ entry' = parked[c].entry
    /\ token' = parked[c].token
    /\ gvk' = gvk
    /\ issued' = parked[c].issued
    /\ outcome' = parked[c].outcome
    /\ result' = parked[c].result
    /\ prev' = parked[c].prev
    /\ cur' = c
    /\ UNCHANGED <<index, solo, exampleVars, informerVars, besideScheduler>>

\* the scheduler stops the running goroutine and resumes goroutine c: the
\* locals of mappingFor (token at line 120, gvk at line 126) and of its caller
\* live on the goroutine's own stack.  Callers that no longer overlap hand
\* over only between calls
Switch(c) ==
    /\ c # cur
    /\ solo => pc = "done"
    /\ parked' = [parked EXCEPT ![cur] = Running, ![c] = IdleCtx]
    /\ pc' = parked[c].pc
    /\ entry' = parked[c].entry
    /\ token' = parked[c].token
    /\ gvk' = parked[c].gvk
    /\ issued' = parked[c].issued
    /\ outcome' = parked[c].outcome
    /\ result' = parked[c].result
    /\ prev' = parked[c].prev
    /\ cur' = c
    /\ UNCHANGED <<index, solo, exampleVars, informerVars, besideScheduler>>

Preempt == \E c \in Calls : Switch(c)

\* the running goroutine enters GetGVR or mappingFor while others may be
\* inside them (resourceSvc.go:87-98, 120-126)
CallConcurrent ==
    /\ pc = "idle"
    /\ ~solo
    /\ prev' = prev
    /\ \E e \in Entries, t \in ConcurrentTokens : Start(e, t)
    /\ UNCHANGED <<exampleVars, informerVars, serverVars>>

\* every call has returned: from now on the callers take turns
Quiesce ==
    /\ ~solo
    /\ \A c \in Calls : CtxOf(c).pc = "done"
    /\ solo' = TRUE
    /\ UNCHANGED <<serviceVars, exampleVars, informerVars, cur, parked, besideScheduler>>

\* a caller makes its call once more, now with no other call under way
CallAlone ==
    /\ solo
    /\ prev = Pending
    /\ Again

NextConcurrent == CallConcurrent \/ Steps \/ Preempt \/ Quiesce \/ CallAlone

SpecConcurrent == InitConcurrent /\ [][NextConcurrent]_vars

\* C21: any number of calls of one ResourceService against one unchanged
\* mapper: under every interleaving of their steps each call returns what
\* the same call returns when it runs with no other call under way, and no
\* step writes the mapper or the locals of a goroutine other than the
\* running one
C21_CallsDoNotInterfere ==
    /\ [](solo /\ pc = "done" /\ prev # Pending => result = prev)
    /\ [][/\ index' = index
          /\ cur' = cur => parked' = parked]_vars

C21_Witness ==
    /\ solo
    /\ pc = "done"
    /\ prev # Pending
    /\ result = prev
    /\ result.err = NoErr
    /\ \E c \in Calls : c # cur /\ parked[c].token # token /\ parked[c].prev # Pending
                             /\ parked[c].issued # << >>

\* C22: mappingFor of the restmapper example, called with the empty token,
\* fails at once: it sends no KindFor and no RESTMapping query to the mapper
C22_ExampleRejectsEmptyToken ==
    (exPc # "idle" /\ token = << >>) =>
        /\ exIssued = << >>
        /\ exPc = "done" => exOutcome.err # NoErr

----------------------------------------------------------------------------
(* K8sConfig of api/config/kubeconfig.go.  Every method is an operator on  *)
(* the struct k, the number h of objects constructed so far, and env, the  *)
(* outcome of each library constructor it may call; it yields the struct   *)
(* and the count afterwards and the value it returns.                      *)

\* which of the library calls succeed: clientcmd.BuildConfigFromFlags /
\* rest.InClusterConfig, kubernetes.NewForConfig, dynamic.NewForConfig,
\* restmapper.GetAPIGroupResources
Envs == [config : BOOLEAN, clientset : BOOLEAN, dynamic : BOOLEAN, discovery : BOOLEAN]

\* errors.Wrap / errors.New of kubeconfig.go
ErrConfig(m) == Err("Bootstrap", <<m>>)

\* the receiver, which InitRestConfig and InitConfigInCluster return
Receiver == Obj("K8sConfig", 0)

\* a nil pointer dereference
Panic == [panic |-> TRUE]

Yield(k, h, ret) == [k |-> k, h |-> h, ret |-> ret]

\* the option functions main passes (kapi.go:23-25); each one writes its
\* field when k.Config is not nil (kubeconfig.go:145-167)
MainOptions == {"WithQps", "WithBurst", "WithTimeout"}

\* kubeconfig.go:34-51
InitRestConfig(k, h, env, opts) ==
    IF ~env.config
    THEN Yield([k EXCEPT !.e = ErrConfig("failed to build config from flags")], h, Receiver)
    ELSE Yield([k EXCEPT !.Config = [type |-> "Config", id |-> h + 1, opts |-> opts]],
               h + 1, Receiver)

\* kubeconfig.go:54-62
InitConfigInCluster(k, h, env) ==
    IF ~env.config
    THEN Yield([k EXCEPT !.e = ErrConfig("failed to get in-cluster config")], h, Receiver)
    ELSE Yield([k EXCEPT !.Config = [type |-> "Config", id |-> h + 1, opts |-> {}]],
               h + 1, Receiver)

\* kubeconfig.go:64-66
Error(k) == k.e

\* faulty variant of InitClientSet: a clientset that could be created clears
\* the error recorded earlier
InitClientSetClearingError(k, h, env) ==
    IF k.Config = Nil
    THEN Yield([k EXCEPT !.e = ErrConfig("k8s config is nil")], h, Nil)
    ELSE IF ~env.clientset
         THEN Yield([k EXCEPT !.e = ErrConfig("failed to create clientset")], h, Nil)
         ELSE Yield([k EXCEPT !.Clientset = Obj("Clientset", h + 1), !.e = NoErr],
                    h + 1, Obj("Clientset", h + 1))

\* kubeconfig.go:69-82
InitClientSet(k, h, env) ==
    IF k.Config = Nil
    THEN Yield([k EXCEPT !.e = ErrConfig("k8s config is nil")], h, Nil)
    ELSE IF ~env.clientset
         THEN Yield([k EXCEPT !.e = ErrConfig("failed to create clientset")], h, Nil)
         ELSE Yield([k EXCEPT !.Clientset = Obj("Clientset", h + 1)],
                    h + 1, Obj("Clientset", h + 1))

\* faulty variant of InitDynamicClient: the field is assigned before the
\* error of the constructor is looked at
InitDynamicClientAssigningFirst(k, h, env) ==
    IF k.Config = Nil
    THEN Yield([k EXCEPT !.e = ErrConfig("k8s config is nil")], h, Nil)
    ELSE IF ~env.dynamic
         THEN Yield([k EXCEPT !.DynamicClient = Nil,
                              !.e = ErrConfig("failed to create dynamic client")], h, Nil)
         ELSE Yield([k EXCEPT !.DynamicClient = Obj("DynamicClient", h + 1)],
                    h + 1, Obj("DynamicClient", h + 1))

\* kubeconfig.go:85-98
InitDynamicClient(k, h, env) ==
    IF k.Config = Nil
    THEN Yield([k EXCEPT !.e = ErrConfig("k8s config is nil")], h, Nil)
    ELSE IF ~env.dynamic
         THEN Yield([k EXCEPT !.e = ErrConfig("failed to create dynamic client")], h, Nil)
         ELSE Yield([k EXCEPT !.DynamicClient = Obj("DynamicClient", h + 1)],
                    h + 1, Obj("DynamicClient", h + 1))

\* kubeconfig.go:102-107 and 121-126: if k.Clientset == nil { k.InitClientSet() };
\* stop tells that the method returns nil at line 105 / 124 because k.e != nil
EnsureClientSet(k, h, env) ==
    IF k.Clientset = Nil
    THEN LET a == InitClientSet(k, h, env)
         IN  [k |-> a.k, h |-> a.h, stop |-> a.k.e # NoErr]
    ELSE [k |-> k, h |-> h, stop |-> FALSE]

\* kubeconfig.go:101-117
InitRestMapper(k, h, env) ==
    LET c == EnsureClientSet(k, h, env)
    IN  IF c.stop THEN Yield(c.k, c.h, Nil)
        ELSE IF c.k.Clientset = Nil THEN Yield(c.k, c.h, Panic)
        ELSE IF ~env.discovery
             THEN Yield([c.k EXCEPT !.e = ErrConfig("failed to get API group resources")],
                        c.h, Nil)
             ELSE Yield([c.k EXCEPT !.RESTMapper = Obj("RESTMapper", c.h + 1)],
                        c.h + 1, Obj("RESTMapper", c.h + 1))

\* kubeconfig.go:120-141
K8sConfigInitInformer(k, h, env) ==
    LET c == EnsureClientSet(k, h, env)
    IN  IF c.stop THEN Yield(c.k, c.h, Nil)
        ELSE Yield([c.k EXCEPT !.SharedInformerFactory = Obj("SharedInformerFactory", c.h + 1)],
                   c.h + 1, Obj("SharedInformerFactory", c.h + 1))

\* the call k8sconfig.m(...) of a method that yields r
Invoke(m, r) ==
    /\ called' = m
    /\ before' = k8sconfig
    /\ k8sconfig' = r.k
    /\ heap' = r.h
    /\ returned' = r.ret

\* a program that owns one K8sConfig and calls its methods in any order
InitConfig ==
    /\ index = IndexOf({}, {}, {})
    /\ ServiceIdle
    /\ ExampleIdle
    /\ InformerIdle
    /\ ServerIdle

\* the caller goes on while it holds fewer than MaxObjects objects
MayCall == heap + 2 <= MaxObjects

outsideConfig == <<serviceVars, exampleVars, informerVars, besideConfig>>

CallInitRestConfig ==
    /\ MayCall
    /\ \E env \in Envs, opts \in {{}, MainOptions} :
            Invoke("InitRestConfig", InitRestConfig(k8sconfig, heap, env, opts))
    /\ UNCHANGED outsideConfig

CallInitConfigInCluster ==
    /\ MayCall
    /\ \E env \in Envs : Invoke("InitConfigInCluster", InitConfigInCluster(k8sconfig, heap, env))
    /\ UNCHANGED outsideConfig

CallInitClientSet ==
    /\ MayCall
    /\ \E env \in Envs : Invoke("InitClientSet", InitClientSet(k8sconfig, heap, env))
    /\ UNCHANGED outsideConfig

CallInitDynamicClient ==
    /\ MayCall
    /\ \E env \in Envs : Invoke("InitDynamicClient", InitDynamicClient(k8sconfig, heap, env))
    /\ UNCHANGED outsideConfig

CallInitRestMapper ==
    /\ MayCall
    /\ \E env \in Envs : Invoke("InitRestMapper", InitRestMapper(k8sconfig, heap, env))
    /\ UNCHANGED outsideConfig

CallInitInformer ==
    /\ MayCall
    /\ \E env \in Envs : Invoke("InitInformer", K8sConfigInitInformer(k8sconfig, heap, env))
    /\ UNCHANGED outsideConfig

NextConfig ==
    \/ CallInitRestConfig
    \/ CallInitConfigInCluster
    \/ CallInitClientSet
    \/ CallInitDynamicClient
    \/ CallInitRestMapper
    \/ CallInitInformer

SpecConfig == InitConfig /\ [][NextConfig]_vars

\* C25: the error of a K8sConfig is sticky: once Error() is not nil it is
\* not nil after any further call of InitRestConfig, InitConfigInCluster,
\* InitClientSet, InitDynamicClient, InitRestMapper or InitInformer, a call
\* that succeeds included
C25_ErrorSticky ==
    (called # "" /\ Error(before) # NoErr) => Error(k8sconfig) # NoErr

\* an error was recorded and a later call constructed its object
C25_Witness ==
    /\ called \in {"InitClientSet", "InitDynamicClient", "InitRestMapper", "InitInformer"}
    /\ Error(before) # NoErr
    /\ returned # Nil
    /\ Error(k8sconfig) = Error(before)

\* the embedded field a method of K8sConfig assigns
FieldOf(m) ==
    CASE m = "InitClientSet" -> "Clientset"
      [] m = "InitDynamicClient" -> "DynamicClient"
      [] m = "InitRestMapper" -> "RESTMapper"
      [] m = "InitInformer" -> "SharedInformerFactory"

\* C26: after any sequence of Init calls, InitClientSet, InitDynamicClient,
\* InitRestMapper or InitInformer returns nil only if Error() is not nil
\* afterwards, and the embedded field of that method is then as it was;
\* InitRestMapper and InitInformer that find no clientset create it themselves
C26_NilOnlyWithError ==
    called \in {"InitClientSet", "InitDynamicClient", "InitRestMapper", "InitInformer"} =>
        /\ returned # Panic
        /\ returned = Nil =>
              /\ Error(k8sconfig) # NoErr
              /\ k8sconfig[FieldOf(called)] = before[FieldOf(called)]
        /\ (called \in {"InitRestMapper", "InitInformer"} /\ returned # Nil) =>
              /\ k8sconfig.Clientset # Nil
              /\ k8sconfig[FieldOf(called)] = returned

\* InitRestMapper found no clientset and created it, and returned nil all the
\* same because of an error recorded earlier
C26_Witness ==
    /\ called = "InitRestMapper"
    /\ returned = Nil
    /\ before.Clientset = Nil
    /\ k8sconfig.Clientset # Nil
    /\ Error(k8sconfig) # NoErr

----------------------------------------------------------------------------
(* main of api/kapi.go, up to the moment the HTTP server listens.  mainPc  *)
(* names the line of kapi.go main is about to execute.                     *)

\* values of the environment variable PORT
Ports == {"", "9000"}

\* the process is started
InitMain ==
    /\ index = IndexOf({}, {}, {})
    /\ ServiceIdle
    /\ ExampleIdle
    /\ InformerIdle
    /\ SchedulerIdle
    /\ ConfigIdle
    /\ RequestIdle
    /\ EventsIdle
    /\ mainPc = "L22"
    /\ locals = NoLocals
    /\ port \in Ports
    /\ listening = FALSE
    /\ status = -1

outsideMain == <<serviceVars, exampleVars, informerVars, besideMain>>

\* kapi.go:22-26: config.NewK8sConfig().InitRestConfig(WithQps, WithBurst, WithTimeout)
MainInitRestConfig ==
    /\ mainPc = "L22"
    /\ \E env \in Envs :
            Invoke("InitRestConfig", InitRestConfig(NewConfig, heap, env, MainOptions))
    /\ mainPc' = "L27"
    /\ UNCHANGED <<locals, port, listening, status>>
    /\ UNCHANGED outsideMain

\* kapi.go:27-29: if err := k8sconfig.Error(); err != nil { log.Fatalf(...) }
MainCheckError ==
    /\ mainPc = "L27"
    /\ IF Error(k8sconfig) # NoErr
       THEN mainPc' = "exited" /\ status' = 1
       ELSE mainPc' = "L31" /\ UNCHANGED status
    /\ UNCHANGED <<locals, port, listening, configVars>>
    /\ UNCHANGED outsideMain

\* kapi.go:31: restMapper := k8sconfig.InitRestMapper()
MainInitRestMapper ==
    /\ mainPc = "L31"
    /\ \E env \in Envs : Invoke("InitRestMapper", InitRestMapper(k8sconfig, heap, env))
    /\ locals' = [locals EXCEPT !.restMapper = returned']
    /\ mainPc' = "L32"
    /\ UNCHANGED <<port, listening, status>>
    /\ UNCHANGED outsideMain

\* kapi.go:32: dynamicClient := k8sconfig.InitDynamicClient()
MainInitDynamicClient ==
    /\ mainPc = "L32"
    /\ \E env \in Envs : Invoke("InitDynamicClient", InitDynamicClient(k8sconfig, heap, env))
    /\ locals' = [locals EXCEPT !.dynamicClient = returned']
    /\ mainPc' = "L33"
    /\ UNCHANGED <<port, listening, status>>
    /\ UNCHANGED outsideMain

\* kapi.go:33: informer := k8sconfig.InitInformer()
MainInitInformer ==
    /\ mainPc = "L33"
    /\ \E env \in Envs : Invoke("InitInformer", K8sConfigInitInformer(k8sconfig, heap, env))
    /\ locals' = [locals EXCEPT !.informer = returned']
    /\ mainPc' = "L34"
    /\ UNCHANGED <<port, listening, status>>
    /\ UNCHANGED outsideMain

\* kapi.go:34: clientSet := k8sconfig.InitClientSet()
MainInitClientSet ==
    /\ mainPc = "L34"
    /\ \E env \in Envs : Invoke("InitClientSet", InitClientSet(k8sconfig, heap, env))
    /\ locals' = [locals EXCEPT !.clientSet = returned']
    /\ mainPc' = "L37"
    /\ UNCHANGED <<port, listening, status>>
    /\ UNCHANGED outsideMain

\* kapi.go:37-96: the services and controllers are built from the four
\* locals, the routes registered, and the server started on its goroutine;
\* ListenAndServe either accepts requests or fails and log.Fatalf ends the process
MainListen ==
    /\ mainPc = "L37"
    /\ \E bound \in BOOLEAN :
            IF bound
            THEN mainPc' = "L101" /\ listening' = TRUE /\ UNCHANGED status
            ELSE mainPc' = "exited" /\ status' = 1 /\ UNCHANGED listening
    /\ UNCHANGED <<locals, port, configVars>>
    /\ UNCHANGED outsideMain

NextMain ==
    \/ MainInitRestConfig
    \/ MainCheckError
    \/ MainInitRestMapper
    \/ MainInitDynamicClient
    \/ MainInitInformer
    \/ MainInitClientSet
    \/ MainListen

SpecMain == InitMain /\ [][NextMain]_vars

\* C23: the HTTP server of kapi.go listens only if the REST mapper, the
\* dynamic client, the informer factory and the clientset were all
\* constructed; if one of InitRestMapper, InitDynamicClient, InitInformer,
\* InitClientSet returned nil the process exits before a request is served
C23_ListensOnlyWithCollaborators ==
    listening =>
        /\ locals.restMapper # Nil
        /\ locals.dynamicClient # Nil
        /\ locals.informer # Nil
        /\ locals.clientSet # Nil

----------------------------------------------------------------------------
(* ListResource, DeleteResource, CreateResource of ResourceService         *)
(* (resourceSvc.go:28-117).  Each method enters mappingFor, whose steps    *)
(* are the actions above, and goes on once mappingFor has returned.        *)
(* opPc names the line the method waits at.                                *)

\* the types the mapper of the API server may hold
ApiTypes == {PodType, NodeType, DeploymentApps}

\* the mappers the methods are run against: every type served; RESTMapping
\* failing with a transport error; nothing served
ApiIndexes ==
    {IndexOf(ApiTypes, ApiTypes, {}),
     IndexOf(ApiTypes, ApiTypes, {"RESTMapping"}),
     IndexOf({}, {}, {})}

\* values of the path parameter / query parameter resource
ApiTokens ==
    {<< >>, <<"pods">>, <<"nodes">>, <<"Node">>, <<"nonexistentthing">>,
     <<"deployments", Dot, "apps">>}

\* values of the parameters ns and name
Namespaces == {"", "default", "kube-system"}
Names == {"", "web"}

\* a line "key: value" of a YAML document
Line(k, v) == [key |-> k, value |-> v]

\* YAML documents, as the sequence of their lines: the empty document, one
\* without a kind, a pod without and with a namespace, a node
YamlDocs ==
    {<< >>,
     <<Line("namespace", "default")>>,
     <<Line("kind", "Pod")>>,
     <<Line("kind", "Pod"), Line("namespace", "kube-system")>>,
     <<Line("kind", "Node")>>}

\* the value of the line with key k, "" if there is none
Field(yaml, k) ==
    IF \E i \in DOMAIN yaml : yaml[i].key = k
    THEN yaml[CHOOSE i \in DOMAIN yaml : yaml[i].key = k].value
    ELSE ""

\* fmt.Errorf(prefix + ": %w", e)
Wrap(prefix, e) == Err(e.class, <<prefix>> \o e.msg)

\* scheme.Codecs.UniversalDeserializer().Decode(yaml, nil, obj): a document
\* without a kind cannot be decoded (resourceSvc.go:69-73)
Decode(yaml) ==
    IF Field(yaml, "kind") = ""
    THEN [obj |-> Nil, err |-> Err("Decode", <<"Object 'Kind' is missing">>)]
    ELSE [obj |-> [kind |-> Field(yaml, "kind"), namespace |-> Field(yaml, "namespace")],
          err |-> NoErr]

\* obj.GetNamespace()
GetNamespace(obj) == obj.namespace

\* the types SharedInformerFactory.ForResource has an informer for
Informable == {GVR(t.Group, t.Version, t.Resource) : t \in ApiTypes}

\* one call of the lister of an informer or of the dynamic client
ClientCall(via, verb, ri, name) ==
    [via |-> via, verb |-> verb, resource |-> ri.resource,
     namespaced |-> ri.namespaced, ns |-> ri.ns, name |-> name]

\* resourceSvc.go:109-116: client.Resource(gvr).Namespace(ns) for a namespaced
\* mapping, client.Resource(gvr) otherwise
getResourceInterface(restMapping, ns) ==
    IF restMapping.Scope = "namespace"
    THEN [resource |-> restMapping.Resource, namespaced |-> TRUE, ns |-> ns]
    ELSE [resource |-> restMapping.Resource, namespaced |-> FALSE, ns |-> ""]

\* resourceSvc.go:39: informer.Lister().ByNamespace(ns)
ByNamespace(restMapping, ns) ==
    [resource |-> restMapping.Resource, namespaced |-> TRUE, ns |-> ns]

Failed(e) == [value |-> Nil, err |-> e]
Succeeded(v) == [value |-> v, err |-> NoErr]

\* the method returns without having entered mappingFor
ReturnAtOnce(r) ==
    /\ opResult' = r
    /\ opPc' = "returned"
    /\ UNCHANGED <<serviceVars, clientCalls>>

\* the method enters mappingFor and waits for it at line l
EnterMappingFor(t, l) ==
    /\ Start("mappingFor", t)
    /\ prev' = prev
    /\ opPc' = l
    /\ UNCHANGED <<clientCalls, opResult>>

\* resourceSvc.go:28-29
ListResource(t, ns) ==
    /\ method' = "ListResource"
    /\ opArgs' = [ns |-> ns, name |-> "", yaml |-> << >>]
    /\ svcCalls' = Append(svcCalls, "ListResource")
    /\ EnterMappingFor(t, "L29")

\* faulty variant of DeleteResource: the name is not checked
DeleteResourceUnchecked(t, ns, name) ==
    /\ method' = "DeleteResource"
    /\ opArgs' = [ns |-> ns, name |-> name, yaml |-> << >>]
    /\ svcCalls' = Append(svcCalls, "DeleteResource")
    /\ EnterMappingFor(t, "L104")

\* resourceSvc.go:47-52 and 101-104
DeleteResource(t, ns, name) ==
    /\ method' = "DeleteResource"
    /\ opArgs' = [ns |-> ns, name |-> name, yaml |-> << >>]
    /\ svcCalls' = Append(svcCalls, "DeleteResource")
    /\ IF name = ""
       THEN ReturnAtOnce(Failed(Err("InvalidArgument", <<"resource name cannot be empty">>)))
       ELSE EnterMappingFor(t, "L104")

\* resourceSvc.go:64-75 and 101-104
CreateResource(t, yaml) ==
    /\ method' = "CreateResource"
    /\ svcCalls' = Append(svcCalls, "CreateResource")
    /\ IF yaml = << >>
       THEN /\ opArgs' = [ns |-> "", name |-> "", yaml |-> yaml]
            /\ ReturnAtOnce(Failed(Err("InvalidArgument", <<"YAML content cannot be empty">>)))
       ELSE IF Decode(yaml).err # NoErr
       THEN /\ opArgs' = [ns |-> "", name |-> "", yaml |-> yaml]
            /\ ReturnAtOnce(Failed(Wrap("failed to decode YAML", Decode(yaml).err)))
       ELSE /\ opArgs' = [ns |-> GetNamespace(Decode(yaml).obj), name |-> "", yaml |-> yaml]
            /\ EnterMappingFor(t, "L104")

\* resourceSvc.go:87-92
GetGVR(t) ==
    /\ method' = "GetGVR"
    /\ opArgs' = NoArgs
    /\ svcCalls' = Append(svcCalls, "GetGVR")
    /\ Start("GetGVR", t)
    /\ prev' = prev
    /\ opPc' = "L92"
    /\ UNCHANGED <<clientCalls, opResult>>

outsideRequest == <<exampleVars, informerVars, besideRequest>>

\* no request and no call is under way
Quiet == pc = "idle" /\ opPc = "idle" /\ handler = ""

\* a caller invokes a method of the service directly
CallListResource ==
    /\ Quiet
    /\ \E t \in ApiTokens, ns \in Namespaces : ListResource(t, ns)
    /\ UNCHANGED <<handler, request, responses>>
    /\ UNCHANGED outsideRequest

CallDeleteResource ==
    /\ Quiet
    /\ \E t \in ApiTokens, ns \in Namespaces, name \in Names : DeleteResource(t, ns, name)
    /\ UNCHANGED <<handler, request, responses>>
    /\ UNCHANGED outsideRequest

CallCreateResource ==
    /\ Quiet
    /\ \E t \in ApiTokens, yaml \in YamlDocs : CreateResource(t, yaml)
    /\ UNCHANGED <<handler, request, responses>>
    /\ UNCHANGED outsideRequest

CallGetGVR ==
    /\ Quiet
    /\ \E t \in ApiTokens : GetGVR(t)
    /\ UNCHANGED <<handler, request, responses>>
    /\ UNCHANGED outsideRequest

\* resourceSvc.go:30-44: ListResource once mappingFor has returned
ListResourceReturn ==
    /\ method = "ListResource"
    /\ opPc = "L29"
    /\ pc = "done"
    /\ IF outcome.err # NoErr
       THEN opResult' = Failed(outcome.err) /\ UNCHANGED clientCalls
       ELSE IF outcome.mapping.Resource \notin Informable
       THEN /\ opResult' = Failed(Err("Informer", <<"failed to get informer for resource">>))
            /\ UNCHANGED clientCalls
       ELSE /\ clientCalls' = Append(clientCalls,
                    ClientCall("informer", "List", ByNamespace(outcome.mapping, opArgs.ns), ""))
            /\ \E ok \in BOOLEAN :
                   opResult' = IF ok THEN Succeeded([list |-> outcome.mapping.Resource])
                               ELSE Failed(Err("Informer", <<"failed to list resources">>))
    /\ opPc' = "returned"
    /\ UNCHANGED <<serviceVars, handler, request, responses, method, opArgs, svcCalls>>
    /\ UNCHANGED outsideRequest

\* resourceSvc.go:105-116 and 53-61: getResourceInterface and DeleteResource
\* once mappingFor has returned
DeleteResourceReturn ==
    /\ method = "DeleteResource"
    /\ opPc = "L104"
    /\ pc = "done"
    /\ IF outcome.err # NoErr
       THEN /\ opResult' = Failed(Wrap("failed to get RESTMapping", outcome.err))
            /\ UNCHANGED clientCalls
       ELSE /\ clientCalls' = Append(clientCalls,
                    ClientCall("dynamic", "Delete",
                               getResourceInterface(outcome.mapping, opArgs.ns), opArgs.name))
            /\ \E ok \in BOOLEAN :
                   opResult' = IF ok THEN Succeeded(Nil)
                               ELSE Failed(Err("Cluster", <<"failed to delete">>))
    /\ opPc' = "returned"
    /\ UNCHANGED <<serviceVars, handler, request, responses, method, opArgs, svcCalls>>
    /\ UNCHANGED outsideRequest

\* resourceSvc.go:105-116 and 76-84: getResourceInterface and CreateResource
\* once mappingFor has returned
CreateResourceReturn ==
    /\ method = "CreateResource"
    /\ opPc = "L104"
    /\ pc = "done"
    /\ IF outcome.err # NoErr
       THEN /\ opResult' = Failed(Wrap("failed to get RESTMapping", outcome.err))
            /\ UNCHANGED clientCalls
       ELSE /\ clientCalls' = Append(clientCalls,
                    ClientCall("dynamic", "Create",
                               getResourceInterface(outcome.mapping, opArgs.ns), ""))
            /\ \E ok \in BOOLEAN :
                   opResult' = IF ok THEN Succeeded(Nil)
                               ELSE Failed(Err("Cluster", <<"failed to create">>))
    /\ opPc' = "returned"
    /\ UNCHANGED <<serviceVars, handler, request, responses, method, opArgs, svcCalls>>
    /\ UNCHANGED outsideRequest

\* resourceSvc.go:93-97: GetGVR once mappingFor has returned
GetGVRReturn ==
    /\ method = "GetGVR"
    /\ opPc = "L92"
    /\ pc = "done"
    /\ opResult' = result
    /\ opPc' = "returned"
    /\ UNCHANGED <<serviceVars, handler, request, responses, method, opArgs, svcCalls, clientCalls>>
    /\ UNCHANGED outsideRequest

Returns == ListResourceReturn \/ DeleteResourceReturn \/ CreateResourceReturn \/ GetGVRReturn

----------------------------------------------------------------------------
(* The handlers of ResourceCtl (api/controllers): List, Delete, Create and *)
(* GetGVR.  A handler reads the parameters of the request, invokes the     *)
(* method of the service and, once that has returned, writes the response. *)

\* net/http status codes the handlers use
StatusOK == 200
StatusCreated == 201
StatusBadRequest == 400
StatusInternalServerError == 500

\* c.JSON(status, gin.H{"error": ...}) and c.JSON(status, gin.H{"data": ...})
JSONError(st) == [status |-> st, body |-> "error"]
JSONData(st) == [status |-> st, body |-> "data"]

\* a query parameter: absent from the URL, or present with a value
Absent == [absent |-> TRUE]
Present(v) == [value |-> v]

\* c.DefaultQuery(key, d) and c.Query(key)
DefaultQuery(q, d) == IF q = Absent THEN d ELSE q.value
QueryOf(q) == DefaultQuery(q, "")

\* request bodies: malformed JSON, or a JSON object whose field yaml holds
\* a document (the empty one when the field is missing or "")
Bodies ==
    {[wellFormed |-> FALSE, yaml |-> << >>]}
        \cup {[wellFormed |-> TRUE, yaml |-> y] : y \in YamlDocs}

\* c.ShouldBindJSON(&param) with Yaml bound as required (lines 72-80)
ShouldBindJSON(body) ==
    IF ~body.wellFormed THEN [yaml |-> << >>, err |-> Err("Bind", <<"invalid JSON">>)]
    ELSE IF body.yaml = << >>
    THEN [yaml |-> << >>, err |-> Err("Bind", <<"Yaml is required">>)]
    ELSE [yaml |-> body.yaml, err |-> NoErr]

Requests ==
    [resource : ApiTokens,
     ns : {Absent} \cup {Present(n) : n \in Namespaces},
     name : {Absent} \cup {Present(n) : n \in Names},
     body : Bodies]

\* the handler answers without invoking the service
Reject(r) ==
    /\ responses' = Append(responses, r)
    /\ UNCHANGED <<serviceVars, method, opArgs, opPc, svcCalls, clientCalls, opResult>>

\* part_000:19-29
List ==
    /\ Quiet
    /\ handler' = "List"
    /\ \E req \in Requests :
          /\ req.name = Absent /\ req.body = [wellFormed |-> FALSE, yaml |-> << >>]
          /\ request' = req
          /\ IF req.resource = << >>
             THEN Reject(JSONError(StatusBadRequest))
             ELSE /\ ListResource(req.resource, DefaultQuery(req.ns, "default"))
                  /\ UNCHANGED responses
    /\ UNCHANGED outsideRequest

\* part_000:39-54
Delete ==
    /\ Quiet
    /\ handler' = "Delete"
    /\ \E req \in Requests :
          /\ req.body = [wellFormed |-> FALSE, yaml |-> << >>]
          /\ request' = req
          /\ IF req.resource = << >>
             THEN Reject(JSONError(StatusBadRequest))
             ELSE IF QueryOf(req.name) = ""
             THEN Reject(JSONError(StatusBadRequest))
             ELSE /\ DeleteResource(req.resource, DefaultQuery(req.ns, "default"),
                                    QueryOf(req.name))
                  /\ UNCHANGED responses
    /\ UNCHANGED outsideRequest

\* part_000:64-82
Create ==
    /\ Quiet
    /\ handler' = "Create"
    /\ \E req \in Requests :
          /\ req.name = Absent /\ req.ns = Absent
          /\ request' = req
          /\ IF req.resource = << >>
             THEN Reject(JSONError(StatusBadRequest))
             ELSE IF ShouldBindJSON(req.body).err # NoErr
             THEN Reject(JSONError(StatusBadRequest))
             ELSE /\ CreateResource(req.resource, ShouldBindJSON(req.body).yaml)
                  /\ UNCHANGED responses
    /\ UNCHANGED outsideRequest

\* part_000:92-100
HandleGetGVR ==
    /\ Quiet
    /\ handler' = "GetGVR"
    /\ \E req \in Requests :
          /\ req.name = Absent /\ req.ns = Absent
          /\ req.body = [wellFormed |-> FALSE, yaml |-> << >>]
          /\ request' = req
          /\ IF req.resource = << >>
             THEN Reject(JSONError(StatusBadRequest))
             ELSE GetGVR(req.resource) /\ UNCHANGED responses
    /\ UNCHANGED outsideRequest

\* the status a handler answers a failure of the service with
FailureStatusUniform(h) == StatusInternalServerError

\* part_000:31, 56, 84: 500 in List, Delete and Create; part_000:102: 400 in GetGVR
FailureStatus(h) ==
    IF h = "GetGVR" THEN StatusBadRequest ELSE StatusInternalServerError

\* part_000:35, 60, 106: 200 in List, Delete and GetGVR; part_000:88: 201 in Create
SuccessStatus(h) ==
    IF h = "Create" THEN StatusCreated ELSE StatusOK

\* part_000:30-35, 55-60, 83-88, 101-106: the handler writes the response
\* once the method of the service has returned
Respond ==
    /\ handler # ""
    /\ opPc = "returned"
    /\ responses' = Append(responses,
            IF opResult.err # NoErr
            THEN JSONError(FailureStatus(handler))
            ELSE JSONData(SuccessStatus(handler)))
    /\ opPc' = "responded"
    /\ UNCHANGED <<serviceVars, handler, request, method, opArgs, svcCalls, clientCalls, opResult>>
    /\ UNCHANGED outsideRequest

InitApi ==
    /\ index \in ApiIndexes
    /\ ServiceIdle
    /\ ExampleIdle
    /\ InformerIdle
    /\ ServerIdle

NextApi ==
    \/ CallListResource
    \/ CallDeleteResource
    \/ CallCreateResource
    \/ CallGetGVR
    \/ List
    \/ Delete
    \/ Create
    \/ HandleGetGVR
    \/ Steps
    \/ Returns
    \/ Respond

SpecApi == InitApi /\ [][NextApi]_vars

\* the method of the service has returned
MethodReturned == opPc \in {"returned", "responded"}

\* the call applies a restriction to one namespace
Restricted(call) == call.namespaced /\ call.ns # ""

\* C24: ListResource, DeleteResource and CreateResource restrict the call
\* they make to the namespace they were given exactly when the scope of the
\* resolved mapping is "namespace"; for a cluster-scoped resource none of
\* them applies a namespace restriction
C24_NamespaceOnlyWhenNamespaced ==
    (MethodReturned /\ method \in {"ListResource", "DeleteResource", "CreateResource"}) =>
        \A i \in DOMAIN clientCalls :
            IF outcome.mapping.Scope = "namespace"
            THEN clientCalls[i].namespaced /\ clientCalls[i].ns = opArgs.ns
            ELSE ~Restricted(clientCalls[i])

\* the arguments DeleteResource and CreateResource refuse
Refused ==
    \/ method = "DeleteResource" /\ opArgs.name = ""
    \/ method = "CreateResource" /\ opArgs.yaml = << >>
    \/ method = "CreateResource" /\ Field(opArgs.yaml, "kind") = ""

\* C27: DeleteResource given an empty name, and CreateResource given an empty
\* or undecodable YAML document, return an error without a query to the
\* mapper and without a call of the dynamic client
C27_RefusedBeforeAnyLookup ==
    Refused =>
        /\ MethodReturned
        /\ opResult.err # NoErr
        /\ pc = "idle"
        /\ issued = << >>
        /\ clientCalls = << >>

\* both methods have refused their arguments: a document without a kind, and
\* an empty name for a resource the mapper knows
C27_Witness ==
    /\ Refused
    /\ opPc = "returned"
    /\ index.kinds # {}
    /\ \/ method = "CreateResource" /\ opArgs.yaml # << >>
       \/ method = "DeleteResource" /\ opResult.err.class = "InvalidArgument"

\* the request lacks a parameter the handler requires
Missing ==
    \/ request.resource = << >>
    \/ handler = "Delete" /\ (request.name = Absent \/ request.name = Present(""))
    \/ handler = "Create" /\ (~request.body.wellFormed \/ request.body.yaml = << >>)

MethodOf(h) ==
    CASE h = "List" -> "ListResource"
      [] h = "Delete" -> "DeleteResource"
      [] h = "Create" -> "CreateResource"
      [] h = "GetGVR" -> "GetGVR"

\* C28: every handler of ResourceCtl writes exactly one response: 400 without
\* invoking the service when the resource (or the name of Delete, or the yaml
\* body of Create) is missing; on a failure of the service 500 in List,
\* Delete and Create and 400 in GetGVR; on success 200 in List, Delete and
\* GetGVR and 201 in Create
C28_OneResponsePerRequest ==
    handler # "" =>
        IF Missing
        THEN responses = <<JSONError(StatusBadRequest)>> /\ svcCalls = << >>
        ELSE /\ svcCalls = <<MethodOf(handler)>>
             /\ opPc # "responded" => responses = << >>
             /\ opPc = "responded" =>
                   responses =
                     << IF opResult.err # NoErr
                        THEN JSONError(IF handler = "GetGVR" THEN StatusBadRequest
                                       ELSE StatusInternalServerError)
                        ELSE JSONData(IF handler = "Create" THEN StatusCreated
                                      ELSE StatusOK) >>

\* GetGVR has answered a failure of the service
C28_Witness ==
    /\ handler = "GetGVR"
    /\ opPc = "responded"
    /\ opResult.err.class = "NotFound"
    /\ responses = <<JSONError(StatusBadRequest)>>

----------------------------------------------------------------------------
(* PodLogEventService.GetEvents (api/services/podLogEventSvc.go:36-56) and *)
(* its handler PodLogEventCtl.GetEvent (api/controllers).                  *)

\* the pods events are about, and the namespace each one lives in
Pods == {"web", "db"}
NamespaceOf(pod) == IF pod = "web" THEN "default" ELSE "kube-system"

\* v1.Event: the involved object, the type and the message
Events == [pod : Pods, Type : {"Warning", "Normal"}, Message : {"BackOff", "Pulled"}]

\* what the cluster may hold
Clusters == UNION {[1..n -> Events] : n \in 0..MaxEvents}

\* values of the parameters podname and ns
PodNames == {""} \cup Pods
EventNamespaces == {"", "default", "kube-system"}

\* CoreV1().Events(ns).List with the field selector
\* involvedObject.name=podname,involvedObject.kind=Pod: the events of the
\* namespace (of every namespace when ns is "") about that pod, in order
RECURSIVE EventsOf(_, _, _)
EventsOf(items, ns, podname) ==
    IF items = << >> THEN << >>
    ELSE LET e == Head(items)
             rest == EventsOf(Tail(items), ns, podname)
         IN  IF e.pod = podname /\ (ns = "" \/ NamespaceOf(e.pod) = ns)
             THEN <<e>> \o rest
             ELSE rest

\* faulty variant of Warnings: the type of the event is not looked at
EveryMessage(items) == [i \in DOMAIN items |-> items[i].Message]

\* podLogEventSvc.go:48-53: the loop over events.Items
RECURSIVE Warnings(_)
Warnings(items) ==
    IF items = << >> THEN << >>
    ELSE IF Head(items).Type = "Warning"
         THEN <<Head(items).Message>> \o Warnings(Tail(items))
         ELSE Warnings(Tail(items))

\* podLogEventSvc.go:36-41: the check of the pod name, then the list request
GetEvents(ns, podname) ==
    /\ evArgs' = [ns |-> ns, podname |-> podname]
    /\ IF podname = ""
       THEN /\ evResult' = Failed(Err("InvalidArgument", <<"pod name cannot be empty">>))
            /\ evPc' = "returned"
            /\ UNCHANGED listCalls
       ELSE /\ listCalls' = Append(listCalls, [ns |-> ns, podname |-> podname])
            /\ evPc' = "L41"
            /\ UNCHANGED evResult

outsideEvents == <<serviceVars, exampleVars, informerVars, besideEvents>>

\* a caller invokes GetEvents directly
CallGetEvents ==
    /\ evPc = "idle"
    /\ \E ns \in EventNamespaces, podname \in PodNames : GetEvents(ns, podname)
    /\ UNCHANGED <<cluster, evHandled, evResponses>>
    /\ UNCHANGED outsideEvents

\* podLogEventCtl.go:68-76: ns defaults to "default", podname to ""
GetEvent ==
    /\ evPc = "idle"
    /\ evHandled' = TRUE
    /\ \E ns \in {Absent} \cup {Present(n) : n \in EventNamespaces},
          podname \in {Absent} \cup {Present(n) : n \in PodNames} :
            GetEvents(DefaultQuery(ns, "default"), DefaultQuery(podname, ""))
    /\ UNCHANGED <<cluster, evResponses>>
    /\ UNCHANGED outsideEvents

\* podLogEventSvc.go:41-55: the cluster answers the list request, or fails
ListEvents ==
    /\ evPc = "L41"
    /\ \E ok \in BOOLEAN :
          evResult' =
            IF ok THEN Succeeded(Warnings(EventsOf(cluster, evArgs.ns, evArgs.podname)))
            ELSE Failed(Wrap("failed to list events", Err("Upstream", <<"connection refused">>)))
    /\ evPc' = "returned"
    /\ UNCHANGED <<cluster, evArgs, evHandled, listCalls, evResponses>>
    /\ UNCHANGED outsideEvents

\* podLogEventCtl.go:77-84
RespondGetEvent ==
    /\ evPc = "returned"
    /\ evHandled
    /\ evResponses' = Append(evResponses,
            IF evResult.err # NoErr THEN JSONError(StatusInternalServerError)
            ELSE JSONData(StatusOK))
    /\ evPc' = "responded"
    /\ UNCHANGED <<cluster, evArgs, evHandled, listCalls, evResult>>
    /\ UNCHANGED outsideEvents

InitEvents ==
    /\ index = IndexOf({}, {}, {})
    /\ ServiceIdle
    /\ ExampleIdle
    /\ InformerIdle
    /\ SchedulerIdle
    /\ ConfigIdle
    /\ MainIdle
    /\ RequestIdle
    /\ cluster \in Clusters
    /\ evArgs = [ns |-> "", podname |-> ""]
    /\ evPc = "idle"
    /\ evHandled = FALSE
    /\ listCalls = << >>
    /\ evResult = Pending
    /\ evResponses = << >>

NextEvents == CallGetEvents \/ GetEvent \/ ListEvents \/ RespondGetEvent

SpecEvents == InitEvents /\ [][NextEvents]_vars

\* the event is about the pod asked for, in the namespace asked for
Asked(e) ==
    /\ e.pod = evArgs.podname
    /\ evArgs.ns = "" \/ NamespaceOf(e.pod) = evArgs.ns

\* the warnings among the events the cluster lists for the call
ListedWarnings == SelectSeq(cluster, LAMBDA e : Asked(e) /\ e.Type = "Warning")

\* C29: GetEvents given a pod name returns exactly the messages of the
\* listed events of type Warning, in the order listed, and no other; given an
\* empty pod name it fails without a request to the cluster; a failure of
\* the list request is returned as an error, with no partial result
C29_WarningsInOrder ==
    evPc \in {"returned", "responded"} =>
        IF evArgs.podname = ""
        THEN evResult.err # NoErr /\ evResult.value = Nil /\ listCalls = << >>
        ELSE /\ listCalls = <<evArgs>>
             /\ evResult.err # NoErr => evResult.value = Nil
             /\ evResult.err = NoErr =>
                   /\ Len(evResult.value) = Len(ListedWarnings)
                   /\ \A i \in DOMAIN evResult.value :
                         evResult.value[i] = ListedWarnings[i].Message

\* two warnings were returned in the order listed, an event of the pod that
\* is no warning was left out
C29_Witness ==
    /\ evPc = "returned"
    /\ evResult.err = NoErr
    /\ evResult.value = <<"Pulled", "BackOff">>
    /\ Len(cluster) = MaxEvents
    /\ \E i \in DOMAIN cluster : cluster[i].pod = evArgs.podname /\ cluster[i].Type = "Normal"
====
